---- MODULE Spec2Model ----
(***************************************************************************)
(* Unlocked Patents: the scoring / normalisation pipeline of src/main.py   *)
(* and src/modules/*.py as a state machine.                                *)
(*                                                                         *)
(* Numbers are fixed point: a normalised score s in [0,1] is the integer   *)
(* s * SCALE, a weight w is the integer w * WSCALE (hundredths).           *)
(***************************************************************************)
EXTENDS Integers, Sequences, FiniteSets, TLC

VARIABLES
    pc,                    \* position in main() / in the driver of a pure function
    config,                \* name of the configuration class in use
    k,                     \* uniform factor applied to the configured weights
    weights,               \* the WEIGHTS dictionary handed to the scorers
    enable_ai,             \* main(enable_ai=...)
    enable_google_trends,  \* main(enable_google_trends=...)
    file_columns,          \* columns of the source file config.INPUT_CSV
    df,                    \* rows of the table before scoring (loaded, then filtered)
    top_patents,           \* rows of the scored table that flows through the later stages
    columns,               \* column names of top_patents
    stages,                \* history: the stages completed so far, in order
    exported,              \* the exported file, or NoFile
    ret,                   \* return value of main: "pending", "table" or "None"
    error,                 \* the exception that reached main's handler, or NoError
    warnings,              \* the warnings main has printed
    t_i,                   \* trend stage: position of the current row
    t_k,                   \* trend stage: position of the current keyword
    keyword_results,       \* trend stage: keyword results of the current row
    results,               \* trend stage: result dictionaries of the rows done
    cache,                 \* GoogleTrendsAnalyzer.cache
    attempt,               \* _get_trends_data: attempts of the current lookup begun
    last_try,              \* history: outcome and rate-limit sleep of the last attempt
    lookup_ret,            \* _get_trends_data: "running", or what it returned
    trend_data,            \* analyze_patent: the series _get_trends_data returned
    degraded,              \* history: <<row id, keyword position>> of failed lookups
    n_in,                  \* input of the function a single-function specification drives
    n_out,                 \* its result
    delay,                 \* SocialProof.delay, in clock ticks
    last_request,          \* SocialProof._last_request
    now,                   \* the reading of the clock time.time() returns
    todo,                  \* SocialProof: checks the running call has still to make
    slept,                 \* SocialProof: the sleep _rate_limit asked for in this check
    requests               \* history: start and sleep of every request sent

vars == <<pc, config, k, weights, enable_ai, enable_google_trends, file_columns, df,
          top_patents, columns, stages, exported, ret, error, warnings, t_i, t_k,
          keyword_results, results, cache,
          attempt, last_try, lookup_ret, trend_data, degraded, n_in, n_out,
          delay, last_request, now, todo, slept, requests>>

inputVars == <<config, k, weights, enable_google_trends, file_columns>>

runVars == <<stages, exported, ret, error, warnings>>

trendVars == <<t_i, t_k, keyword_results, results, cache, attempt, last_try, lookup_ret,
               trend_data, degraded>>

normVars == <<n_in, n_out>>

socialVars == <<delay, last_request, now, todo, slept, requests>>

\* ---------------------------------------------------------------- bounds
MaxRows == 3
MaxK == 100
MaxPipeRows == 2
MaxLen == 11
MaxFilterRows == 2
MaxItems == 6

\* ------------------------------------------------------ fixed-point units
SCALE == 10 ^ 4
WSCALE == 10 ^ 2

\* not-a-number, the value pandas gives a missing numeric cell
NaN == 0 - 1

fillna(x) == IF x = NaN THEN 0 ELSE x

\* ------------------------------------------------------------- src/config.py
ConfigNames == {"Config", "ConfigDevelopment", "ConfigWithTrends", "ConfigProduction"}

\* Config.WEIGHTS (33-38), inherited by ConfigDevelopment; ConfigWithTrends.WEIGHTS
\* (79-84), inherited by ConfigProduction
WEIGHTS(c) ==
    IF c \in {"Config", "ConfigDevelopment"}
    THEN [citations_patent |-> 40, citations_npl |-> 35, family_size |-> 25, google_trends |-> 0]
    ELSE [citations_patent |-> 30, citations_npl |-> 25, family_size |-> 20, google_trends |-> 25]

MIN_CITATIONS_TOTAL == 5
TOP_N_PATENTS == 5

\* the weights dictionary with every entry multiplied by factor
ScaleWeights(w, factor) == [key \in DOMAIN w |-> w[key] * factor]

\* columns of the source file (Config.COLUMNS), named by their configuration key
RawColumns == {"citations_patent", "citations_npl", "family_size", "legal_status",
               "title", "abstract", "pub_year", "url"}

ScoreColumns == {"log_citations_patent", "log_citations_npl", "log_family_size",
                 "score_citations_patent", "score_citations_npl", "score_family_size",
                 "Final_Score"}

\* ------------------------------------------------- src/modules/scoring.py
\* np.log1p on the counts 0..9, as round(SCALE * ln(1 + n))
Log1pTable == <<0, 6931, 10986, 13863, 16094, 17918, 19459, 20794, 21972, 23026>>

log1p(n) == Log1pTable[n + 1]

ColumnMin(col) == CHOOSE x \in {col[i] : i \in DOMAIN col} : \A j \in DOMAIN col : x <= col[j]

ColumnMax(col) == CHOOSE x \in {col[i] : i \in DOMAIN col} : \A j \in DOMAIN col : x >= col[j]

\* mutant: the minimum is not subtracted before scaling
MinMaxScale_NoShift(x, min_val, max_val) ==
    IF max_val > min_val THEN (x * SCALE) \div (max_val - min_val) ELSE 0

\* scoring.py 21-24: (log - min) / (max - min) when max > min, else 0
MinMaxScale(x, min_val, max_val) ==
    IF max_val > min_val THEN ((x - min_val) * SCALE) \div (max_val - min_val) ELSE 0

\* scoring.py 16: the log column of one metric
log_metric(rows, metric) == [i \in DOMAIN rows |-> log1p(fillna(rows[i][metric]))]

\* scoring.py 15-24 for one metric: the column of normalised scores
\* (min and max of an empty column are NaN, and NaN > NaN is false)
score_metric(rows, metric) ==
    IF rows = <<>> THEN <<>>
    ELSE LET logcol == log_metric(rows, metric)
             min_val == ColumnMin(logcol)
             max_val == ColumnMax(logcol)
         IN  [i \in DOMAIN rows |-> MinMaxScale(logcol[i], min_val, max_val)]

\* mutant: the three scores added up unweighted
base_final_score_Unweighted(r, w) ==
    (r.score_citations_patent + r.score_citations_npl + r.score_family_size) * WSCALE

\* scoring.py 30-34: the weights are used as configured
base_final_score(r, w) ==
    r.score_citations_patent * w.citations_patent
    + r.score_citations_npl * w.citations_npl
    + r.score_family_size * w.family_size

\* scoring.py 15-34: the rows with the score columns and Final_Score, unsorted
with_scores(rows, w) ==
    LET sp == score_metric(rows, "citations_patent")
        sn == score_metric(rows, "citations_npl")
        sf == score_metric(rows, "family_size")
    IN  [i \in DOMAIN rows |->
            LET r == [log_citations_patent |-> log_metric(rows, "citations_patent")[i],
                      log_citations_npl |-> log_metric(rows, "citations_npl")[i],
                      log_family_size |-> log_metric(rows, "family_size")[i],
                      score_citations_patent |-> sp[i],
                      score_citations_npl |-> sn[i],
                      score_family_size |-> sf[i]] @@ rows[i]
            IN  [Final_Score |-> base_final_score(r, w)] @@ r]

Perms(n) == {p \in [1..n -> 1..n] : \A i, j \in 1..n : p[i] = p[j] => i = j}

IsDescending(rows) ==
    \A i \in 1..(Len(rows) - 1) : rows[i].Final_Score >= rows[i + 1].Final_Score

\* DataFrame.sort_values(by='Final_Score', ascending=False) with the default
\* kind='quicksort': descending, the order of equal scores is not specified
sort_values(rows) ==
    {s \in {[i \in DOMAIN rows |-> rows[p[i]]] : p \in Perms(Len(rows))} : IsDescending(s)}

\* scoring.py 7-43: the possible results
calculate_scores(rows, w) == sort_values(with_scores(rows, w))

\* ------------------------------------------------------------ src/main.py
\* dict.get(key, default)
\* the weights calculate_scores reads by direct indexing, in the order the
\* expression evaluates them
BaseWeightKeys == <<"citations_patent", "citations_npl", "family_size">>

\* the metric columns calculate_scores reads that the table does not have, in
\* the order of the metrics list
missing_metrics(cols) == SelectSeq(BaseWeightKeys, LAMBDA metric : metric \notin cols)

\* the indexed weights the configuration does not have, in evaluation order
missing_weights(w) == SelectSeq(BaseWeightKeys, LAMBDA key : key \notin DOMAIN w)

WeightGet(w, key, default) == IF key \in DOMAIN w THEN w[key] ELSE default

\* main.py 247-250
score_google_trends(r, cols) ==
    IF "Google_Trends_Average_Score" \in cols
    THEN fillna(r.Google_Trends_Average_Score)
    ELSE 0

\* main.py 252-261: the four weights divided by their sum
normalized_weights(w) ==
    LET w_patent == WeightGet(w, "citations_patent", 30)
        w_npl == WeightGet(w, "citations_npl", 30)
        w_family == WeightGet(w, "family_size", 20)
        w_trends == WeightGet(w, "google_trends", 20)
        total_weight == w_patent + w_npl + w_family + w_trends
    IN  [citations_patent |-> (w_patent * WSCALE) \div total_weight,
         citations_npl |-> (w_npl * WSCALE) \div total_weight,
         family_size |-> (w_family * WSCALE) \div total_weight,
         google_trends |-> (w_trends * WSCALE) \div total_weight]

\* main.py 267-272
trends_final_score(r, cols, w) ==
    LET nw == normalized_weights(w)
    IN  r.score_citations_patent * nw.citations_patent
        + r.score_citations_npl * nw.citations_npl
        + r.score_family_size * nw.family_size
        + score_google_trends(r, cols) * nw.google_trends

\* main.py 246-272: the rows with score_google_trends and the new Final_Score
with_trend_scores(rows, cols, w) ==
    [i \in DOMAIN rows |->
        [Final_Score |-> trends_final_score(rows[i], cols, w),
         score_google_trends |-> score_google_trends(rows[i], cols)] @@ rows[i]]

\* main.py 242-278: the possible results
recalculate_with_trends(rows, cols, w) == sort_values(with_trend_scores(rows, cols, w))

\* ------------------------------------------- src/modules/google_trends.py
\* interest values are fixed point too: interest * ISCALE; a multiplier m is
\* the integer m * MSCALE
ISCALE == 10 ^ 1
MSCALE == 10 ^ 1
MaxInterest == 100
MaxAttempts == 3

Directions == {"rising", "falling", "stable", "unknown"}

RECURSIVE SeqSum(_)
SeqSum(q) == IF q = <<>> THEN 0 ELSE Head(q) + SeqSum(Tail(q))

\* Series.mean() of an interest column
mean_interest(series) == (SeqSum(series) * ISCALE) \div Len(series)

\* google_trends.py 225-229 evaluates ((second_half - first_half) / first_half)
\* * 100 in binary64.  For integer interest values the rounded result lies on
\* the same side of +-25 as the exact quotient, except for the inputs below,
\* where the exact change is +25 % or -25 % and the rounded one lies beyond it.
\* An entry is <<n1, s1, n2, s2>>: the two halves have n1 and n2 points and sum
\* to s1 and s2; the tables cover every series of at most 12 points of interest
\* 0..100.
Binary64Above25 ==
    {<<5, 12, 5, 15>>, <<5, 24, 5, 30>>, <<5, 28, 5, 35>>, <<5, 48, 5, 60>>,
     <<5, 56, 5, 70>>, <<5, 68, 5, 85>>, <<5, 76, 5, 95>>, <<5, 92, 5, 115>>,
     <<5, 96, 5, 120>>, <<5, 112, 5, 140>>, <<5, 116, 5, 145>>, <<5, 132, 5, 165>>,
     <<5, 136, 5, 170>>, <<5, 152, 5, 190>>, <<5, 156, 5, 195>>, <<5, 164, 5, 205>>,
     <<5, 172, 5, 215>>, <<5, 184, 5, 230>>, <<5, 192, 5, 240>>, <<5, 204, 5, 255>>,
     <<5, 212, 5, 265>>, <<5, 224, 5, 280>>, <<5, 232, 5, 290>>, <<5, 244, 5, 305>>,
     <<5, 252, 5, 315>>, <<5, 264, 5, 330>>, <<5, 272, 5, 340>>, <<5, 284, 5, 355>>,
     <<5, 292, 5, 365>>, <<5, 304, 5, 380>>, <<5, 312, 5, 390>>, <<5, 324, 5, 405>>,
     <<5, 328, 5, 410>>, <<5, 344, 5, 430>>, <<5, 348, 5, 435>>, <<5, 364, 5, 455>>,
     <<5, 368, 5, 460>>, <<5, 384, 5, 480>>, <<5, 388, 5, 485>>, <<5, 6, 6, 9>>,
     <<5, 12, 6, 18>>, <<5, 14, 6, 21>>, <<5, 24, 6, 36>>, <<5, 28, 6, 42>>,
     <<5, 34, 6, 51>>, <<5, 38, 6, 57>>, <<5, 46, 6, 69>>, <<5, 48, 6, 72>>,
     <<5, 56, 6, 84>>, <<5, 58, 6, 87>>, <<5, 66, 6, 99>>, <<5, 68, 6, 102>>,
     <<5, 76, 6, 114>>, <<5, 78, 6, 117>>, <<5, 82, 6, 123>>, <<5, 86, 6, 129>>,
     <<5, 92, 6, 138>>, <<5, 96, 6, 144>>, <<5, 102, 6, 153>>, <<5, 106, 6, 159>>,
     <<5, 112, 6, 168>>, <<5, 116, 6, 174>>, <<5, 122, 6, 183>>, <<5, 126, 6, 189>>,
     <<5, 132, 6, 198>>, <<5, 136, 6, 204>>, <<5, 142, 6, 213>>, <<5, 146, 6, 219>>,
     <<5, 152, 6, 228>>, <<5, 156, 6, 234>>, <<5, 162, 6, 243>>, <<5, 164, 6, 246>>,
     <<5, 172, 6, 258>>, <<5, 174, 6, 261>>, <<5, 182, 6, 273>>, <<5, 184, 6, 276>>,
     <<5, 192, 6, 288>>, <<5, 194, 6, 291>>, <<5, 202, 6, 303>>, <<5, 204, 6, 306>>,
     <<5, 212, 6, 318>>, <<5, 214, 6, 321>>, <<5, 222, 6, 333>>, <<5, 224, 6, 336>>,
     <<5, 232, 6, 348>>, <<5, 234, 6, 351>>, <<5, 242, 6, 363>>, <<5, 244, 6, 366>>,
     <<5, 252, 6, 378>>, <<5, 254, 6, 381>>, <<5, 262, 6, 393>>, <<5, 264, 6, 396>>,
     <<5, 272, 6, 408>>, <<5, 274, 6, 411>>, <<5, 282, 6, 423>>, <<5, 284, 6, 426>>,
     <<5, 292, 6, 438>>, <<5, 294, 6, 441>>, <<5, 302, 6, 453>>, <<5, 304, 6, 456>>,
     <<5, 312, 6, 468>>, <<5, 314, 6, 471>>, <<5, 324, 6, 486>>, <<5, 328, 6, 492>>,
     <<5, 334, 6, 501>>, <<5, 338, 6, 507>>, <<5, 344, 6, 516>>, <<5, 348, 6, 522>>,
     <<5, 354, 6, 531>>, <<5, 358, 6, 537>>, <<5, 364, 6, 546>>, <<5, 368, 6, 552>>,
     <<5, 374, 6, 561>>, <<5, 378, 6, 567>>, <<5, 384, 6, 576>>, <<5, 388, 6, 582>>,
     <<5, 394, 6, 591>>, <<5, 398, 6, 597>>, <<6, 4, 6, 5>>, <<6, 8, 6, 10>>,
     <<6, 16, 6, 20>>, <<6, 20, 6, 25>>, <<6, 32, 6, 40>>, <<6, 40, 6, 50>>,
     <<6, 52, 6, 65>>, <<6, 64, 6, 80>>, <<6, 76, 6, 95>>, <<6, 80, 6, 100>>,
     <<6, 92, 6, 115>>, <<6, 104, 6, 130>>, <<6, 116, 6, 145>>, <<6, 128, 6, 160>>,
     <<6, 140, 6, 175>>, <<6, 152, 6, 190>>, <<6, 160, 6, 200>>, <<6, 172, 6, 215>>,
     <<6, 184, 6, 230>>, <<6, 196, 6, 245>>, <<6, 208, 6, 260>>, <<6, 220, 6, 275>>,
     <<6, 232, 6, 290>>, <<6, 244, 6, 305>>, <<6, 256, 6, 320>>, <<6, 268, 6, 335>>,
     <<6, 280, 6, 350>>, <<6, 292, 6, 365>>, <<6, 304, 6, 380>>, <<6, 308, 6, 385>>,
     <<6, 320, 6, 400>>, <<6, 332, 6, 415>>, <<6, 344, 6, 430>>, <<6, 356, 6, 445>>,
     <<6, 368, 6, 460>>, <<6, 380, 6, 475>>, <<6, 392, 6, 490>>, <<6, 404, 6, 505>>,
     <<6, 416, 6, 520>>, <<6, 428, 6, 535>>, <<6, 440, 6, 550>>, <<6, 452, 6, 565>>,
     <<6, 464, 6, 580>>, <<6, 476, 6, 595>>}

Binary64BelowMinus25 ==
    {<<5, 4, 5, 3>>, <<5, 8, 5, 6>>, <<5, 16, 5, 12>>, <<5, 32, 5, 24>>,
     <<5, 44, 5, 33>>, <<5, 52, 5, 39>>, <<5, 64, 5, 48>>, <<5, 68, 5, 51>>,
     <<5, 84, 5, 63>>, <<5, 88, 5, 66>>, <<5, 104, 5, 78>>, <<5, 108, 5, 81>>,
     <<5, 116, 5, 87>>, <<5, 128, 5, 96>>, <<5, 136, 5, 102>>, <<5, 148, 5, 111>>,
     <<5, 156, 5, 117>>, <<5, 168, 5, 126>>, <<5, 176, 5, 132>>, <<5, 188, 5, 141>>,
     <<5, 196, 5, 147>>, <<5, 208, 5, 156>>, <<5, 216, 5, 162>>, <<5, 232, 5, 174>>,
     <<5, 236, 5, 177>>, <<5, 252, 5, 189>>, <<5, 256, 5, 192>>, <<5, 272, 5, 204>>,
     <<5, 276, 5, 207>>, <<5, 292, 5, 219>>, <<5, 296, 5, 222>>, <<5, 312, 5, 234>>,
     <<5, 316, 5, 237>>, <<5, 332, 5, 249>>, <<5, 336, 5, 252>>, <<5, 352, 5, 264>>,
     <<5, 356, 5, 267>>, <<5, 372, 5, 279>>, <<5, 376, 5, 282>>, <<5, 392, 5, 294>>,
     <<5, 396, 5, 297>>, <<5, 412, 5, 309>>, <<5, 416, 5, 312>>, <<5, 432, 5, 324>>,
     <<5, 444, 5, 333>>, <<5, 452, 5, 339>>, <<5, 464, 5, 348>>, <<5, 472, 5, 354>>,
     <<5, 484, 5, 363>>, <<5, 492, 5, 369>>, <<6, 20, 6, 15>>, <<6, 28, 6, 21>>,
     <<6, 40, 6, 30>>, <<6, 56, 6, 42>>, <<6, 68, 6, 51>>, <<6, 80, 6, 60>>,
     <<6, 92, 6, 69>>, <<6, 100, 6, 75>>, <<6, 112, 6, 84>>, <<6, 124, 6, 93>>,
     <<6, 136, 6, 102>>, <<6, 148, 6, 111>>, <<6, 160, 6, 120>>, <<6, 172, 6, 129>>,
     <<6, 184, 6, 138>>, <<6, 200, 6, 150>>, <<6, 212, 6, 159>>, <<6, 224, 6, 168>>,
     <<6, 236, 6, 177>>, <<6, 248, 6, 186>>, <<6, 260, 6, 195>>, <<6, 272, 6, 204>>,
     <<6, 284, 6, 213>>, <<6, 296, 6, 222>>, <<6, 308, 6, 231>>, <<6, 320, 6, 240>>,
     <<6, 332, 6, 249>>, <<6, 344, 6, 258>>, <<6, 356, 6, 267>>, <<6, 368, 6, 276>>,
     <<6, 380, 6, 285>>, <<6, 388, 6, 291>>, <<6, 400, 6, 300>>, <<6, 412, 6, 309>>,
     <<6, 424, 6, 318>>, <<6, 436, 6, 327>>, <<6, 448, 6, 336>>, <<6, 460, 6, 345>>,
     <<6, 472, 6, 354>>, <<6, 484, 6, 363>>, <<6, 496, 6, 372>>, <<6, 508, 6, 381>>,
     <<6, 520, 6, 390>>, <<6, 532, 6, 399>>, <<6, 544, 6, 408>>, <<6, 556, 6, 417>>,
     <<6, 568, 6, 426>>, <<6, 580, 6, 435>>, <<6, 592, 6, 444>>}

\* change_pct > 25 (google_trends.py 227)
change_above_25(n1, s1, n2, s2) ==
    \/ (s2 * n1 - s1 * n2) * 100 > 25 * s1 * n2
    \/ <<n1, s1, n2, s2>> \in Binary64Above25

\* change_pct < -25 (google_trends.py 229)
change_below_minus_25(n1, s1, n2, s2) ==
    \/ (s2 * n1 - s1 * n2) * 100 < (0 - 25) * s1 * n2
    \/ <<n1, s1, n2, s2>> \in Binary64BelowMinus25

\* mutant: no test of the first half for 0, the change from 0 to a positive
\* mean counting as a rise
calculate_trend_direction_NoZeroTest(series) ==
    IF Len(series) < 10 THEN "unknown"
    ELSE LET mid == Len(series) \div 2
             n1 == mid
             n2 == Len(series) - mid
             s1 == SeqSum(SubSeq(series, 1, mid))
             s2 == SeqSum(SubSeq(series, mid + 1, Len(series)))
         IN  IF change_above_25(n1, s1, n2, s2) THEN "rising"
             ELSE IF change_below_minus_25(n1, s1, n2, s2) THEN "falling"
             ELSE "stable"

\* google_trends.py 209-232
calculate_trend_direction(series) ==
    IF Len(series) < 10 THEN "unknown"
    ELSE LET mid == Len(series) \div 2
             n1 == mid
             n2 == Len(series) - mid
             s1 == SeqSum(SubSeq(series, 1, mid))
             s2 == SeqSum(SubSeq(series, mid + 1, Len(series)))
         IN  IF s1 = 0 THEN "stable"
             ELSE IF change_above_25(n1, s1, n2, s2) THEN "rising"
             ELSE IF change_below_minus_25(n1, s1, n2, s2) THEN "falling"
             ELSE "stable"

\* google_trends.py 249-254
multiplier(trend_direction) ==
    IF trend_direction = "rising" THEN 13
    ELSE IF trend_direction = "falling" THEN 7
    ELSE 10

Min2(a, b) == IF a < b THEN a ELSE b

Max2(a, b) == IF a > b THEN a ELSE b

\* mutant: the result is not clamped at 1
normalize_score_NoCeiling(avg_interest, trend_direction) ==
    Max2((avg_interest * multiplier(trend_direction) * SCALE) \div (100 * ISCALE * MSCALE), 0)

\* google_trends.py 234-259
normalize_score(avg_interest, trend_direction) ==
    LET final == (avg_interest * multiplier(trend_direction) * SCALE)
                     \div (100 * ISCALE * MSCALE)
    IN  Min2(Max2(final, 0), SCALE)

\* google_trends.py 261-268
empty_result == [keyword |-> <<>>, avg_interest |-> 0, trend_direction |-> "unknown",
                 final_score |-> 0]

\* google_trends.py 90-102: the result for a non-empty series
analyze_data(keyword, series) ==
    LET avg_interest == mean_interest(series)
        trend_direction == calculate_trend_direction(series)
    IN  [keyword |-> keyword, avg_interest |-> avg_interest,
         trend_direction |-> trend_direction,
         final_score |-> normalize_score(avg_interest, trend_direction)]

\* google_trends.py 120-125
stop_words == {"method", "system", "apparatus", "device", "process", "means",
               "assembly", "composition", "compound", "a", "an", "the", "and", "or",
               "for", "with", "using"}

\* analyze_patent's default timeframe (line 61); a text is the sequence of
\* its pieces, "_" being a piece of its own
DefaultTimeframe == <<"today 5-y">>

\* google_trends.py 150: f"{keyword}_{timeframe}"
cache_key(keyword, timeframe) == keyword \o <<"_">> \o timeframe

\* mutant: the whole list
FirstN_All(q, n) == q

\* q[:n]
FirstN(q, n) == SubSeq(q, 1, Min2(n, Len(q)))

\* google_trends.py 104-136; a title is the sequence of its words, already in
\* lower case and without special characters; <<>> is the empty or missing title
extract_keyword(title) ==
    IF title = <<>> THEN <<>>
    ELSE LET Relevant(w) == w \notin stop_words /\ Len(w) > 2
             words == SelectSeq(title, Relevant)
         IN  IF Len(title) <= 5 THEN title
             ELSE IF FirstN(words, 4) # <<>> THEN FirstN(words, 4) ELSE title

\* ----------------------------------------------- src/modules/data_loader.py
\* str.upper() and str.strip() on the legal-status spellings of the source
\* files; astype(str) has turned a missing cell into "nan"
upper(text) ==
    CASE text = " expired" -> " EXPIRED"
      [] text = "nan" -> "NAN"
      [] OTHER -> text

strip(text) ==
    CASE text = " EXPIRED" -> "EXPIRED"
      [] text = " expired" -> "expired"
      [] OTHER -> text

\* data_loader.py 26: list(config.COLUMNS.values()), in the order of config.py
\* 14-23
required == <<"citations_patent", "citations_npl", "family_size", "legal_status",
              "title", "abstract", "pub_year", "url">>

\* mutant: only the first missing column is reported
missing_columns_First(present) ==
    LET Missing(col) == col \notin present
    IN  FirstN(SelectSeq(required, Missing), 1)

\* data_loader.py 27
missing_columns(present) ==
    LET Missing(col) == col \notin present
    IN  SelectSeq(required, Missing)

\* data_loader.py 34-47; a cell that is missing or not a number is NaN
clean_data(rows) ==
    [i \in DOMAIN rows |->
        [rows[i] EXCEPT !.citations_patent = fillna(@),
                        !.citations_npl = fillna(@),
                        !.family_size = fillna(@),
                        !.legal_status = strip(upper(@))]]

\* ---------------------------------------------- src/modules/ai_enrichment.py
\* A JSON value of a response field is [json, items]: an array with its items,
\* a string with its characters, null, or "absent" when the object has no such
\* key.
JsonArray(items) == [json |-> "array", items |-> items]

JsonString(chars) == [json |-> "string", items |-> chars]

JsonNull == [json |-> "null", items |-> <<>>]

Absent == [json |-> "absent", items |-> <<>>]

\* ai_enrichment.py 146-153
empty_enrichment ==
    [human_abstract |-> JsonString(<<>>), keywords |-> JsonArray(<<>>),
     use_cases |-> JsonArray(<<>>), market_potential |-> JsonString(<<>>)]

\* dict.get(key, default)
JsonGet(field, default) == IF field.json = "absent" THEN default ELSE field

\* value[:n] of an array or of a string
Slice(value, n) == [value EXCEPT !.items = FirstN(@, n)]

\* ai_enrichment.py 123-129: a markdown fence around the text is removed
strip_fence(response) == [response EXCEPT !.fence = "none"]

\* ai_enrichment.py 118-144.  json.loads raises on text that is not JSON or is
\* still fenced, .get raises on a value that is not an object, and slicing
\* raises on null; every exception gives the empty result.
parse_response(response) ==
    LET data == strip_fence(response)
    IN  IF data.kind # "json_object" \/ data.fence # "none" THEN empty_enrichment
        ELSE IF JsonGet(data.keywords, JsonArray(<<>>)).json = "null" THEN empty_enrichment
        ELSE IF JsonGet(data.use_cases, JsonArray(<<>>)).json = "null" THEN empty_enrichment
        ELSE [human_abstract |-> JsonGet(data.human_abstract, JsonString(<<>>)),
              keywords |-> Slice(JsonGet(data.keywords, JsonArray(<<>>)), 5),
              use_cases |-> Slice(JsonGet(data.use_cases, JsonArray(<<>>)), 3),
              market_potential |-> JsonGet(data.market_potential, JsonString(<<>>))]

\* ai_enrichment.py 38-77
enrich_patent(response) ==
    IF response.kind = "raises" THEN empty_enrichment ELSE parse_response(response)

\* --------------------------------------------------- src/modules/filters.py
\* filters.py 15-21
filter_legal_status(rows) ==
    LET Keep(r) == upper(r.legal_status) = "EXPIRED" IN SelectSeq(rows, Keep)

\* mutant: the family size counts towards the citation total
filter_min_citations_WithFamily(rows) ==
    LET Keep(r) == r.citations_patent + r.citations_npl + r.family_size
                       >= MIN_CITATIONS_TOTAL
    IN  SelectSeq(rows, Keep)

\* filters.py 23-32
filter_min_citations(rows) ==
    LET Keep(r) == r.citations_patent + r.citations_npl >= MIN_CITATIONS_TOTAL
    IN  SelectSeq(rows, Keep)

\* filters.py 5-13
apply_all_filters(rows) == filter_min_citations(filter_legal_status(rows))

\* ------------------------------------------------------------ src/main.py
NaNText == "NaN"

\* main.py 228-239
empty_trends_result(idx) ==
    [index |-> idx,
     Google_Trends_Average_Score |-> 0,
     Google_Trends_Best_Keyword |-> <<>>,
     Google_Trends_Consensus |-> "Unknown",
     Google_Trends_Keyword_1 |-> <<>>,
     Google_Trends_Score_1 |-> 0,
     Google_Trends_Direction_1 |-> "unknown",
     Google_Trends_Interest_1 |-> 0]

\* main.py 172-177
keyword_result(keyword, result) ==
    [keyword |-> keyword, score |-> result.final_score,
     direction |-> result.trend_direction, avg_interest |-> result.avg_interest]

RECURSIVE ScoreSum(_)
ScoreSum(krs) == IF krs = <<>> THEN 0 ELSE Head(krs).score + ScoreSum(Tail(krs))

\* mutant: keywords whose score is 0 are left out of the mean
average_score_SkipDegraded(krs) ==
    LET n == Cardinality({i \in DOMAIN krs : krs[i].score > 0})
    IN  IF n = 0 THEN 0 ELSE ScoreSum(krs) \div n

\* mutant: the sum is divided by the number of keyword slots
average_score_OverThree(krs) == ScoreSum(krs) \div 3

\* main.py 186
average_score(krs) == ScoreSum(krs) \div Len(krs)

\* mutant: the last of the maximal elements
best_keyword_Last(krs) ==
    LET i == CHOOSE i \in DOMAIN krs :
                 /\ \A j \in DOMAIN krs : krs[j].score <= krs[i].score
                 /\ \A j \in (i + 1)..Len(krs) : krs[j].score < krs[i].score
    IN  krs[i]

\* main.py 187: max() returns the first of the maximal elements
best_keyword(krs) ==
    LET i == CHOOSE i \in DOMAIN krs :
                 /\ \A j \in DOMAIN krs : krs[j].score <= krs[i].score
                 /\ \A j \in 1..(i - 1) : krs[j].score < krs[i].score
    IN  krs[i]

CountDirection(krs, d) == Cardinality({i \in DOMAIN krs : krs[i].direction = d})

\* mutant: one rising or falling direction is enough
consensus_AnyOne(krs) ==
    IF CountDirection(krs, "rising") >= 1 THEN "Rising"
    ELSE IF CountDirection(krs, "falling") >= 1 THEN "Falling"
    ELSE "Mixed"

\* main.py 190-196
consensus(krs) ==
    IF CountDirection(krs, "rising") >= 2 THEN "Rising"
    ELSE IF CountDirection(krs, "falling") >= 2 THEN "Falling"
    ELSE "Mixed"

\* main.py 209-213: the four columns of keyword slot i
slot(i, kr) ==
    CASE i = 1 -> [Google_Trends_Keyword_1 |-> kr.keyword,
                   Google_Trends_Score_1 |-> kr.score,
                   Google_Trends_Direction_1 |-> kr.direction,
                   Google_Trends_Interest_1 |-> kr.avg_interest]
      [] i = 2 -> [Google_Trends_Keyword_2 |-> kr.keyword,
                   Google_Trends_Score_2 |-> kr.score,
                   Google_Trends_Direction_2 |-> kr.direction,
                   Google_Trends_Interest_2 |-> kr.avg_interest]
      [] i = 3 -> [Google_Trends_Keyword_3 |-> kr.keyword,
                   Google_Trends_Score_3 |-> kr.score,
                   Google_Trends_Direction_3 |-> kr.direction,
                   Google_Trends_Interest_3 |-> kr.avg_interest]

RECURSIVE slots(_, _)
slots(krs, i) == IF i > Len(krs) THEN <<>> ELSE slot(i, krs[i]) @@ slots(krs, i + 1)

\* main.py 186-213: the result dictionary of a row with keyword results
result_data(idx, krs) ==
    [index |-> idx,
     Google_Trends_Average_Score |-> average_score(krs),
     Google_Trends_Best_Keyword |-> best_keyword(krs).keyword,
     Google_Trends_Consensus |-> consensus(krs)] @@ slots(krs, 1)

\* main.py 149-213: the result dictionary of one row, from its keyword list
\* and from what analyze_patent returned for each of its first three keywords
aggregate(idx, keywords_list, outcomes) ==
    IF keywords_list = <<>> THEN empty_trends_result(idx)
    ELSE result_data(idx, [i \in 1..Len(FirstN(keywords_list, 3)) |->
                              keyword_result(keywords_list[i], outcomes[i])])

\* google_trends.py 310-316: the result dictionary of batch_analyze
batch_result(idx, result) ==
    [index |-> idx,
     Google_Trends_Score |-> result.final_score,
     Google_Trends_Keyword |-> result.keyword,
     Google_Trends_Direction |-> result.trend_direction,
     Google_Trends_Avg_Interest |-> result.avg_interest]

\* columns of pd.DataFrame(results).set_index('index')
ResultColumns(res) == UNION {DOMAIN res[i] : i \in DOMAIN res} \ {"index"}

TextColumns == {"Google_Trends_Best_Keyword", "Google_Trends_Consensus",
                "Google_Trends_Keyword", "Google_Trends_Direction",
                "Google_Trends_Keyword_1", "Google_Trends_Keyword_2", "Google_Trends_Keyword_3",
                "Google_Trends_Direction_1", "Google_Trends_Direction_2",
                "Google_Trends_Direction_3"}

\* a result dictionary as a row of the results frame: absent keys are NaN
ResultRow(d, cols) ==
    [c \in cols |-> IF c \in DOMAIN d THEN d[c]
                    ELSE IF c \in TextColumns THEN NaNText ELSE NaN]

\* df.join(results_df) on the index (main.py 224-225, google_trends.py 326-327,
\* ai_enrichment.py 209-210): every row keeps its cells and gets the cells of the
\* result with its index label
join(rows, res) ==
    [i \in DOMAIN rows |->
        LET hits == {j \in DOMAIN res : res[j].index = rows[i].id}
        IN  IF hits = {} THEN ResultRow(<<>>, ResultColumns(res)) @@ rows[i]
            ELSE ResultRow(res[CHOOSE j \in hits : TRUE], ResultColumns(res)) @@ rows[i]]

\* --------------------------------------------------- src/modules/export.py
AIColumns == <<"AI_Human_Abstract", "AI_Keywords", "AI_Use_Cases", "AI_Market_Potential">>

AggTrendsColumns == <<"Google_Trends_Average_Score", "Google_Trends_Best_Keyword",
                      "Google_Trends_Consensus">>

IndividualColumns ==
    <<"Google_Trends_Keyword_1", "Google_Trends_Score_1",
      "Google_Trends_Direction_1", "Google_Trends_Interest_1",
      "Google_Trends_Keyword_2", "Google_Trends_Score_2",
      "Google_Trends_Direction_2", "Google_Trends_Interest_2",
      "Google_Trends_Keyword_3", "Google_Trends_Score_3",
      "Google_Trends_Direction_3", "Google_Trends_Interest_3">>

\* export.py 22-68
output_cols(cols) ==
    LET Present(c) == c \in cols
    IN  <<"Final_Score", "title", "pub_year", "citations_patent", "citations_npl",
          "family_size">>
        \o SelectSeq(AIColumns, Present)
        \o SelectSeq(AggTrendsColumns, Present)
        \o SelectSeq(IndividualColumns, Present)
        \o <<"Unlocked_Comment", "abstract", "url">>

\* mutant: the last row is not written
export_top_n_DropLast(rows, cols) ==
    [columns |-> output_cols(cols),
     rows |-> FirstN(rows, Min2(TOP_N_PATENTS, Len(rows) - 1)), written |-> TRUE]

\* export.py 8-77: the file written
export_top_n(rows, cols) ==
    [columns |-> output_cols(cols), rows |-> FirstN(rows, TOP_N_PATENTS), written |-> TRUE]

\* ------------------------------------------------ values outside a run
NoTry == [kind |-> "none", wait |-> 0]

NoError == [type |-> "none", names |-> <<>>]

NoFile == [columns |-> <<>>, rows |-> <<>>, written |-> FALSE]

\* ------------------------------------------- src/modules/social_proof.py
\* time is counted in ticks of the clock that time.time() reads; Epoch is its
\* reading when the client is constructed
None == 0 - 1
Epoch == 0 + 1

\* `if self._last_request:` (line 59)
Truthy(x) == x # None /\ x # 0

rate_limit_sleep_Never(last, clock, d) == 0

\* _rate_limit, lines 59-62: the argument of time.sleep, 0 for no sleep
rate_limit_sleep(last, clock, d) ==
    IF Truthy(last) /\ clock - last < d THEN d - (clock - last) ELSE 0

\* no SocialProof client exists
NoClient ==
    /\ delay = 0
    /\ last_request = None
    /\ now = Epoch
    /\ todo = 0
    /\ slept = 0
    /\ requests = <<>>

Idle ==
    /\ stages = <<>>
    /\ exported = NoFile
    /\ ret = "pending"
    /\ error = NoError
    /\ warnings = {}
    /\ t_i = 0
    /\ t_k = 0
    /\ keyword_results = <<>>
    /\ results = <<>>
    /\ cache = <<>>
    /\ attempt = 0
    /\ last_try = NoTry
    /\ lookup_ret = "no call"
    /\ trend_data = <<>>
    /\ degraded = {}

\* ================================================================ main()
\* Source tables: every sequence of at most MaxPipeRows rows over these values.
\* The index label of a row is its position in the file; its title is fixed by
\* the label: a long title, a short one, a missing one.
PipeRowValues ==
    [legal_status : {"EXPIRED", "ACTIVE"}, citations_patent : {0, 2, 4},
     citations_npl : {3}, family_size : {2}]

TitleOf(id) ==
    CASE id = 1 -> <<"method", "for", "storage", "of", "solar", "energy", "cells">>
      [] id = 2 -> <<"solar", "panel">>
      [] OTHER -> <<>>

InputTables ==
    {[i \in DOMAIN t |-> [id |-> i, title |-> TitleOf(i)] @@ t[i]] :
        t \in UNION {[1..n -> PipeRowValues] : n \in 0..MaxPipeRows}}

\* keyword lists the enrichment service may give a record (at most 5 keywords;
\* <<>> is also the result of a failed call)
KeywordLists ==
    {<<>>,
     <<<<"solar", "panel">>>>,
     <<<<"battery">>, <<>>, <<"solar", "panel">>, <<"grid">>>>}

\* interest series the trend service may return
SeriesSet ==
    {<<40, 40, 40, 40, 40, 60, 60, 60, 60, 60>>,
     <<80>>}

\* what one call of the trend service does
Responses ==
    {[kind |-> "data", series |-> s] : s \in SeriesSet}
    \cup {[kind |-> x, series |-> <<>>] : x \in {"empty", "no_column", "rate_limit", "error"}}

\* main.py 19-37.  main instantiates Config or ConfigDevelopment (line 37); the
\* configuration is modelled as any of the four classes config.py ships, since
\* ConfigWithTrends and ConfigProduction are the ones under which the rescoring
\* of main.py 99-101 runs.
Init ==
    /\ pc = "load"
    /\ config \in ConfigNames
    /\ k = 1
    /\ weights = WEIGHTS(config)
    /\ enable_ai \in BOOLEAN
    /\ enable_google_trends \in BOOLEAN
    /\ file_columns \in SUBSET RawColumns
    /\ df = <<>>
    /\ top_patents = <<>>
    /\ columns = {}
    /\ Idle
    /\ NoClient
    /\ n_in = <<>>
    /\ n_out = 0

\* an exception reaches main's handler (main.py 127-131)
Abort(e) ==
    /\ pc' = "done"
    /\ ret' = "None"
    /\ error' = e

\* pd.DataFrame([]).set_index('index')
NoIndexColumn == [type |-> "KeyError", names |-> <<"index">>]

\* loader.load_csv() (data_loader.py 9-23): the cleaned table
LoadCsv ==
    /\ pc = "load"
    /\ missing_columns(file_columns) = <<>>
    /\ df' \in InputTables
    /\ columns' = RawColumns
    /\ stages' = Append(stages, "Loaded")
    /\ pc' = "filter"
    /\ UNCHANGED <<inputVars, socialVars, enable_ai, top_patents, exported, ret, error,
                   warnings, trendVars, normVars>>

\* load_csv raises: no file (data_loader.py 13-14) or missing columns (25-30)
LoadCsvFails ==
    /\ pc = "load"
    /\ \/ Abort([type |-> "FileNotFoundError", names |-> <<>>])
       \/ /\ missing_columns(file_columns) # <<>>
          /\ Abort([type |-> "KeyError", names |-> missing_columns(file_columns)])
    /\ UNCHANGED <<inputVars, socialVars, enable_ai, df, top_patents, columns, stages,
                   exported, warnings, trendVars, normVars>>

\* filters.apply_all_filters(df) (main.py 47-48)
ApplyAllFilters ==
    /\ pc = "filter"
    /\ df' = apply_all_filters(df)
    /\ stages' = Append(stages, "Filtered")
    /\ pc' = "score"
    /\ UNCHANGED <<inputVars, socialVars, enable_ai, top_patents, columns, exported, ret,
                   error, warnings, trendVars, normVars>>

\* scoring.calculate_scores(df_filtered) and head(TOP_N_PATENTS) (main.py 50-54)
CalculateScores ==
    /\ pc = "score"
    /\ \E df_scored \in calculate_scores(df, weights) :
           top_patents' = FirstN(df_scored, TOP_N_PATENTS)
    /\ columns' = columns \cup ScoreColumns
    /\ stages' = Append(stages, "Scored")
    /\ pc' = "ai"
    /\ UNCHANGED <<inputVars, socialVars, enable_ai, df, exported, ret, error, warnings,
                   trendVars, normVars>>

\* main.py 57: enable_ai is false
SkipAI ==
    /\ pc = "ai"
    /\ ~enable_ai
    /\ pc' = "trends"
    /\ UNCHANGED <<inputVars, socialVars, enable_ai, df, top_patents, columns, runVars,
                   trendVars, normVars>>

\* AIEnrichment() raises ValueError, no ANTHROPIC_API_KEY (ai_enrichment.py
\* 29-32); main.py 72-74
AIUnavailable ==
    /\ pc = "ai"
    /\ enable_ai
    /\ enable_ai' = FALSE
    /\ warnings' = warnings \cup {"AI enrichment skipped"}
    /\ pc' = "trends"
    /\ UNCHANGED <<inputVars, socialVars, df, top_patents, columns, stages, exported, ret,
                   error, trendVars, normVars>>

\* ai.batch_enrich(top_patents, ...) (ai_enrichment.py 155-210): every record
\* gets the keyword list of its enrich_patent result; set_index('index') on the
\* frame of no results raises KeyError
BatchEnrich ==
    /\ pc = "ai"
    /\ enable_ai
    /\ \/ /\ top_patents # <<>>
          /\ \E kws \in [DOMAIN top_patents -> KeywordLists] :
                 top_patents' = join(top_patents,
                     [i \in DOMAIN top_patents |->
                         [index |-> top_patents[i].id, AI_Keywords_List |-> kws[i]]])
          /\ columns' = columns \cup {"AI_Human_Abstract", "AI_Keywords", "AI_Use_Cases",
                                      "AI_Market_Potential", "AI_Keywords_List"}
          /\ stages' = Append(stages, "Enriched")
          /\ pc' = "trends"
          /\ UNCHANGED <<exported, ret, error>>
       \/ /\ top_patents = <<>>
          /\ Abort(NoIndexColumn)
          /\ UNCHANGED <<top_patents, columns, stages, exported>>
    /\ UNCHANGED <<inputVars, socialVars, enable_ai, df, warnings, trendVars, normVars>>

\* mutant: the rescoring is reached although the trend stage is disabled
SkipTrends_RescoreAnyway ==
    /\ pc = "trends"
    /\ ~enable_google_trends
    /\ pc' = "rescore"
    /\ UNCHANGED <<inputVars, socialVars, enable_ai, df, top_patents, columns, runVars,
                   trendVars, normVars>>

\* main.py 77: enable_google_trends is false
SkipTrends ==
    /\ pc = "trends"
    /\ ~enable_google_trends
    /\ pc' = "export"
    /\ UNCHANGED <<inputVars, socialVars, enable_ai, df, top_patents, columns, runVars,
                   trendVars, normVars>>

\* main.py 81: a new analyzer, its cache empty (google_trends.py 57)
StartTrends ==
    /\ pc = "trends"
    /\ enable_google_trends
    /\ cache' = <<>>
    /\ results' = <<>>
    /\ t_i' = 1
    /\ pc' = "t_row"
    /\ UNCHANGED <<inputVars, socialVars, enable_ai, df, top_patents, columns, runVars, t_k,
                   keyword_results, attempt, last_try, lookup_ret, trend_data, degraded,
                   normVars>>

\* main.py 84
UseAIKeywords == enable_ai /\ "AI_Keywords_List" \in columns

\* the titles handed to analyze_patent for row t_i: the first three AI keywords
\* (main.py 163), or the row's title (google_trends.py 308)
CurrentKeywords ==
    IF UseAIKeywords THEN FirstN(top_patents[t_i].AI_Keywords_List, 3)
    ELSE <<top_patents[t_i].title>>

\* the loop over the rows: main.py 149-158, google_trends.py 307
NextRow ==
    /\ pc = "t_row"
    /\ t_i <= Len(top_patents)
    /\ IF UseAIKeywords /\ top_patents[t_i].AI_Keywords_List = <<>>
       THEN /\ results' = Append(results, empty_trends_result(top_patents[t_i].id))
            /\ t_i' = t_i + 1
            /\ UNCHANGED <<pc, t_k, keyword_results>>
       ELSE /\ keyword_results' = <<>>
            /\ t_k' = 1
            /\ pc' = "t_kw"
            /\ UNCHANGED <<t_i, results>>
    /\ UNCHANGED <<inputVars, socialVars, enable_ai, df, top_patents, columns, runVars,
                   cache, attempt, last_try, lookup_ret, trend_data, degraded, normVars>>

\* after the loop: pd.DataFrame(results).set_index('index') and the join
\* (main.py 224-225, google_trends.py 326-327); KeyError when there are no results
JoinTrends ==
    /\ pc = "t_row"
    /\ t_i > Len(top_patents)
    /\ \/ /\ results # <<>>
          /\ top_patents' = join(top_patents, results)
          /\ columns' = columns \cup ResultColumns(results)
          /\ stages' = Append(stages, "TrendAggregated")
          /\ pc' = "rescore"
          /\ UNCHANGED <<exported, ret, error>>
       \/ /\ results = <<>>
          /\ Abort(NoIndexColumn)
          /\ UNCHANGED <<top_patents, columns, stages, exported>>
    /\ UNCHANGED <<inputVars, socialVars, enable_ai, df, warnings, trendVars, normVars>>

\* the keyword result is stored and the loops advance: main.py 172-215 for the
\* AI keywords, google_trends.py 310-316 for the title
FinishKeyword(result) ==
    IF UseAIKeywords
    THEN LET krs == Append(keyword_results,
                           keyword_result(CurrentKeywords[t_k], result))
         IN  IF t_k < Len(CurrentKeywords)
             THEN /\ keyword_results' = krs
                  /\ t_k' = t_k + 1
                  /\ pc' = "t_kw"
                  /\ UNCHANGED <<t_i, results>>
             ELSE /\ keyword_results' = krs
                  /\ results' = Append(results, result_data(top_patents[t_i].id, krs))
                  /\ t_i' = t_i + 1
                  /\ pc' = "t_row"
                  /\ UNCHANGED t_k
    ELSE /\ results' = Append(results, batch_result(top_patents[t_i].id, result))
         /\ t_i' = t_i + 1
         /\ pc' = "t_row"
         /\ UNCHANGED <<t_k, keyword_results>>

\* analyze_patent up to the first service call (google_trends.py 79-85,
\* 149-152): no keyword gives the empty result, a cached keyword its cached series
AnalyzePatent ==
    /\ pc = "t_kw"
    /\ LET keyword == extract_keyword(CurrentKeywords[t_k])
       IN  IF keyword = <<>>
           THEN /\ FinishKeyword(empty_result)
                /\ UNCHANGED <<attempt, last_try, lookup_ret, trend_data>>
           ELSE IF cache_key(keyword, DefaultTimeframe) \in DOMAIN cache
           THEN /\ lookup_ret' = "cached"
                /\ trend_data' = cache[cache_key(keyword, DefaultTimeframe)]
                /\ pc' = "t_ret"
                /\ UNCHANGED <<t_i, t_k, keyword_results, results, attempt, last_try>>
           ELSE /\ lookup_ret' = "running"
                /\ pc' = "t_lookup"
                /\ UNCHANGED <<t_i, t_k, keyword_results, results, attempt, last_try,
                               trend_data>>
    /\ UNCHANGED <<inputVars, socialVars, enable_ai, df, top_patents, columns, runVars,
                   cache, degraded, normVars>>

\* mutant: one more turn of the retry loop
last_attempt_OneMore(a) == a = MaxAttempts

\* google_trends.py 155: range(3) ends with attempt 2
last_attempt(a) == a = MaxAttempts - 1

\* google_trends.py 197
rate_limit_wait(a) == (a + 1) * 30

\* _get_trends_data returns None
ReturnNone ==
    /\ lookup_ret' = "None"
    /\ trend_data' = <<>>
    /\ pc' = "t_ret"
    /\ UNCHANGED cache

\* one turn of the loop of _get_trends_data (google_trends.py 155-207)
LookupAttempt ==
    /\ pc = "t_lookup"
    /\ \E resp \in Responses :
        LET keyword == extract_keyword(CurrentKeywords[t_k])
            wait == IF resp.kind = "rate_limit" THEN rate_limit_wait(attempt) ELSE 0
        IN  /\ last_try' = [kind |-> resp.kind, wait |-> wait]
            /\ attempt' = attempt + 1
            /\ CASE resp.kind = "data" ->
                      /\ cache' = (cache_key(keyword, DefaultTimeframe) :> resp.series)
                                       @@ cache
                      /\ lookup_ret' = "data"
                      /\ trend_data' = resp.series
                      /\ pc' = "t_ret"
                 [] resp.kind \in {"empty", "no_column"} -> ReturnNone
                 [] resp.kind \in {"rate_limit", "error"} ->
                      IF last_attempt(attempt)
                      THEN ReturnNone
                      ELSE UNCHANGED <<pc, cache, lookup_ret, trend_data>>
    /\ UNCHANGED <<inputVars, socialVars, enable_ai, df, top_patents, columns, runVars, t_i,
                   t_k, keyword_results, results, degraded, normVars>>

\* analyze_patent after _get_trends_data returned (google_trends.py 87-102):
\* None or an empty series gives the empty result
AnalyzeResult ==
    /\ pc = "t_ret"
    /\ IF lookup_ret = "None" \/ Len(trend_data) = 0
       THEN /\ FinishKeyword(empty_result)
            /\ degraded' = degraded \cup {<<top_patents[t_i].id, t_k>>}
       ELSE /\ FinishKeyword(analyze_data(extract_keyword(CurrentKeywords[t_k]), trend_data))
            /\ UNCHANGED degraded
    /\ attempt' = 0
    /\ last_try' = NoTry
    /\ lookup_ret' = "no call"
    /\ trend_data' = <<>>
    /\ UNCHANGED <<inputVars, socialVars, enable_ai, df, top_patents, columns, runVars,
                   cache, normVars>>

\* main.py 99: the trend weight is 0, no rescoring
SkipRescore ==
    /\ pc = "rescore"
    /\ ~(WeightGet(weights, "google_trends", 0) > 0)
    /\ pc' = "export"
    /\ UNCHANGED <<inputVars, socialVars, enable_ai, df, top_patents, columns, runVars,
                   trendVars, normVars>>

\* mutant: the rescoring runs whatever the trend weight is, and gives the
\* trend score a quarter of the weight
Rescore_Always ==
    /\ pc = "rescore"
    /\ top_patents' \in recalculate_with_trends(top_patents, columns,
                             [weights EXCEPT !.google_trends = 25])
    /\ columns' = columns \cup {"score_google_trends"}
    /\ stages' = Append(stages, "Rescored")
    /\ pc' = "export"
    /\ UNCHANGED <<inputVars, socialVars, enable_ai, df, exported, ret, error, warnings,
                   trendVars, normVars>>

\* main.py 99-101
Rescore ==
    /\ pc = "rescore"
    /\ WeightGet(weights, "google_trends", 0) > 0
    /\ top_patents' \in recalculate_with_trends(top_patents, columns, weights)
    /\ columns' = columns \cup {"score_google_trends"}
    /\ stages' = Append(stages, "Rescored")
    /\ pc' = "export"
    /\ UNCHANGED <<inputVars, socialVars, enable_ai, df, exported, ret, error, warnings,
                   trendVars, normVars>>

\* exporter.export_top_n(top_patents) (main.py 107-108)
Export ==
    /\ pc = "export"
    /\ exported' = export_top_n(top_patents, columns)
    /\ stages' = Append(stages, "Exported")
    /\ pc' = "summary"
    /\ UNCHANGED <<inputVars, socialVars, enable_ai, df, top_patents, columns, ret, error,
                   warnings, trendVars, normVars>>

\* main.py 110-125: the summary reads top_patents['Google_Trends_Score'] when the
\* trend stage was enabled; KeyError when the table has no such column
Summary ==
    /\ pc = "summary"
    /\ IF enable_google_trends /\ "Google_Trends_Score" \notin columns
       THEN Abort([type |-> "KeyError", names |-> <<"Google_Trends_Score">>])
       ELSE /\ pc' = "done"
            /\ ret' = "table"
            /\ UNCHANGED error
    /\ UNCHANGED <<inputVars, socialVars, enable_ai, df, top_patents, columns, stages,
                   exported, warnings, trendVars, normVars>>

Next ==
    \/ LoadCsv \/ LoadCsvFails \/ ApplyAllFilters \/ CalculateScores
    \/ SkipAI \/ AIUnavailable \/ BatchEnrich
    \/ SkipTrends \/ StartTrends \/ NextRow \/ JoinTrends \/ AnalyzePatent \/ LookupAttempt
    \/ AnalyzeResult
    \/ SkipRescore \/ Rescore \/ Export \/ Summary

Spec == Init /\ [][Next]_vars

\* ===================================================== the scorers alone
\* Tables for the scorers: every sequence of at most MaxRows rows over these
\* values; the row's id is its index label.
ScoreRowValues ==
    {r \in [citations_patent : {0, 2, 7}, citations_npl : {NaN, 3}, family_size : {1, 4}] :
        (r.family_size = 4) <=> (r.citations_patent = 2) \/ (r.citations_npl = 3 /\ r.citations_patent = 7)}

ScoreTables ==
    UNION {[1..n -> ScoreRowValues] : n \in 0..MaxRows}

WithIds(t) == [i \in DOMAIN t |-> [id |-> i] @@ t[i]]

\* aggregated trend-score columns for a table of n rows: all zero, all 1, and
\* growing with the position
TrendColumns(n) ==
    {[i \in 1..n |-> 0], [i \in 1..n |-> SCALE], [i \in 1..n |-> (i * SCALE) \div (n + 1)]}

\* a WEIGHTS dictionary without one key
Without(w, absent) == [key \in DOMAIN w \ {absent} |-> w[key]]

\* the configuration's weights with one of the known metrics left out
IncompleteWeights(c) == {Without(WEIGHTS(c), absent) : absent \in DOMAIN WEIGHTS(c)}

\* a table without the columns named
DropColumns(rows, absent) ==
    [i \in DOMAIN rows |-> [col \in DOMAIN rows[i] \ absent |-> rows[i][col]]]

\* the sets of metric columns a table handed to the scorer may lack: none or
\* one of them
AbsentColumns == {{}} \cup {{metric} : metric \in {"citations_patent", "family_size"}}

InitScore ==
    /\ pc = "s_input"
    /\ config \in {"Config", "ConfigWithTrends"}
    /\ k \in {1, MaxK}
    /\ weights \in {ScaleWeights(WEIGHTS(config), k)}
                     \cup (IF k = 1 THEN IncompleteWeights(config) ELSE {})
    /\ enable_ai = FALSE
    /\ enable_google_trends = FALSE
    /\ file_columns = RawColumns
    /\ \E absent \in AbsentColumns :
           /\ columns = {"citations_patent", "citations_npl", "family_size"} \ absent
           /\ df \in {DropColumns(WithIds(t), absent) : t \in ScoreTables}
    /\ top_patents = <<>>
    /\ Idle
    /\ NoClient
    /\ n_in = <<>>
    /\ n_out = 0

\* scoring.calculate_scores(df). The scorer works on its own copy of the table
\* (line 10): df, the object passed in, is as before the call, and n_in keeps
\* what it held when the call began. df[metric] raises KeyError on the first
\* metric column the table lacks, and WEIGHTS[...] on the first weight the
\* configuration lacks.
ScoreStep ==
    /\ pc = "s_input"
    /\ n_in' = df
    /\ df' = df
    /\ CASE missing_metrics(columns) # <<>> ->
              /\ error' = [type |-> "KeyError",
                           names |-> <<Head(missing_metrics(columns))>>]
              /\ pc' = "s_failed"
              /\ UNCHANGED <<top_patents, columns>>
         [] missing_metrics(columns) = <<>> /\ missing_weights(weights) # <<>> ->
              /\ error' = [type |-> "KeyError",
                           names |-> <<Head(missing_weights(weights))>>]
              /\ pc' = "s_failed"
              /\ UNCHANGED <<top_patents, columns>>
         [] OTHER ->
              /\ top_patents' \in calculate_scores(df, weights)
              /\ columns' = columns \cup ScoreColumns
              /\ pc' = "s_scored"
              /\ UNCHANGED error
    /\ UNCHANGED <<inputVars, socialVars, enable_ai, stages, exported, ret, warnings,
                   trendVars, n_out>>

\* the trend stage seen from the scorer: it adds an aggregated trend score to
\* every row, or (title path) no such column
TrendColumnStep ==
    /\ pc = "s_scored"
    /\ \/ /\ \E col \in TrendColumns(Len(top_patents)) :
                top_patents' = [i \in DOMAIN top_patents |->
                                   [Google_Trends_Average_Score |-> col[i]] @@ top_patents[i]]
          /\ columns' = columns \cup {"Google_Trends_Average_Score"}
       \/ UNCHANGED <<top_patents, columns>>
    /\ pc' = "s_trends"
    /\ UNCHANGED <<inputVars, socialVars, enable_ai, df, runVars, trendVars, normVars>>

\* _recalculate_with_trends(top_patents, config). The two column assignments
\* (lines 247-250 and 267-272) write to the table object passed in, and
\* sort_values (line 274) returns a new table: df is the object passed in as
\* the call leaves it, n_in what it held when the call began.
RescoreStep ==
    /\ pc = "s_trends"
    /\ n_in' = top_patents
    /\ df' = with_trend_scores(top_patents, columns, weights)
    /\ top_patents' \in recalculate_with_trends(top_patents, columns, weights)
    /\ columns' = columns \cup {"score_google_trends"}
    /\ pc' = "s_rescored"
    /\ UNCHANGED <<inputVars, socialVars, enable_ai, runVars, trendVars, n_out>>

NextScore == ScoreStep \/ TrendColumnStep \/ RescoreStep

SpecScore == InitScore /\ [][NextScore]_vars

\* ============================================== _normalize_score alone
InitNorm ==
    /\ pc = "n_input"
    /\ n_in \in [avg_interest : 0..(MaxInterest * ISCALE), trend_direction : Directions]
    /\ n_out = 0
    /\ config = "Config"
    /\ k = 1
    /\ weights = WEIGHTS(config)
    /\ enable_ai = FALSE
    /\ enable_google_trends = FALSE
    /\ file_columns = RawColumns
    /\ df = <<>>
    /\ top_patents = <<>>
    /\ columns = {}
    /\ Idle
    /\ NoClient

NormalizeStep ==
    /\ pc = "n_input"
    /\ n_out' = normalize_score(n_in.avg_interest, n_in.trend_direction)
    /\ pc' = "n_done"
    /\ UNCHANGED <<inputVars, socialVars, enable_ai, df, top_patents, columns, runVars,
                   trendVars, n_in>>

NextNorm == NormalizeStep

SpecNorm == InitNorm /\ [][NextNorm]_vars

\* ==================================== _calculate_trend_direction alone
\* interest levels of the series
DirLevels == {0, 2, 3, 30, 35, 40, 50, 60}

\* series of at most MaxLen points that hold one level up to a position and
\* another level after it
DirSeries ==
    {[i \in 1..n |-> IF i <= split THEN a ELSE b] :
        n \in 0..MaxLen, split \in 0..MaxLen, a \in DirLevels, b \in DirLevels}

InitDir ==
    /\ pc = "d_input"
    /\ n_in \in DirSeries
    /\ n_out = "none"
    /\ config = "Config"
    /\ k = 1
    /\ weights = WEIGHTS(config)
    /\ enable_ai = FALSE
    /\ enable_google_trends = FALSE
    /\ file_columns = RawColumns
    /\ df = <<>>
    /\ top_patents = <<>>
    /\ columns = {}
    /\ Idle
    /\ NoClient

DirectionStep ==
    /\ pc = "d_input"
    /\ n_out' = calculate_trend_direction(n_in)
    /\ pc' = "d_done"
    /\ UNCHANGED <<inputVars, socialVars, enable_ai, df, top_patents, columns, runVars,
                   trendVars, n_in>>

NextDir == DirectionStep

SpecDir == InitDir /\ [][NextDir]_vars

\* ============================ the aggregation of one row's keywords alone
AggKeywords == <<<<"solar", "panel">>, <<"battery">>, <<"grid">>, <<"wind">>>>

\* series with direction rising, falling, stable, unknown, and a second
\* rising one with another mean
AggSeries ==
    {[i \in 1..10 |-> IF i <= 5 THEN 40 ELSE 60],
     [i \in 1..10 |-> IF i <= 5 THEN 60 ELSE 40],
     [i \in 1..10 |-> 40],
     <<80>>,
     [i \in 1..10 |-> IF i <= 5 THEN 20 ELSE 30]}

\* what analyze_patent may return for a keyword
Outcomes(keyword) == {empty_result} \cup {analyze_data(keyword, q) : q \in AggSeries}

AggInputs ==
    UNION {{[idx |-> 1, keywords_list |-> FirstN(AggKeywords, n), outcomes |-> o] :
               o \in {f \in [1..Min2(n, 3) -> UNION {Outcomes(AggKeywords[i]) : i \in 1..3}] :
                         \A i \in DOMAIN f : f[i] \in Outcomes(AggKeywords[i])}} :
           n \in 0..Len(AggKeywords)}

InitAgg ==
    /\ pc = "a_input"
    /\ n_in \in AggInputs
    /\ n_out = <<>>
    /\ config = "Config"
    /\ k = 1
    /\ weights = WEIGHTS(config)
    /\ enable_ai = FALSE
    /\ enable_google_trends = FALSE
    /\ file_columns = RawColumns
    /\ df = <<>>
    /\ top_patents = <<>>
    /\ columns = {}
    /\ Idle
    /\ NoClient

AggregateStep ==
    /\ pc = "a_input"
    /\ n_out' = aggregate(n_in.idx, n_in.keywords_list, n_in.outcomes)
    /\ pc' = "a_done"
    /\ UNCHANGED <<inputVars, socialVars, enable_ai, df, top_patents, columns, runVars,
                   trendVars, n_in>>

NextAgg == AggregateStep

SpecAgg == InitAgg /\ [][NextAgg]_vars

\* ================================================ load and filter alone
\* cells of a source file: the legal status as spelled, counts that may be
\* missing or not numeric
RawRowValues ==
    [legal_status : {"EXPIRED", " expired", "ACTIVE", "nan"},
     citations_patent : {0, 2, 5}, citations_npl : {NaN, 0, 3}, family_size : {2}]

RawTables == UNION {[1..n -> RawRowValues] : n \in 0..MaxFilterRows}

InitFilter ==
    /\ pc = "f_input"
    /\ n_in \in {WithIds(t) : t \in RawTables}
    /\ n_out = <<>>
    /\ config = "Config"
    /\ k = 1
    /\ weights = WEIGHTS(config)
    /\ enable_ai = FALSE
    /\ enable_google_trends = FALSE
    /\ file_columns = RawColumns
    /\ df = <<>>
    /\ top_patents = <<>>
    /\ columns = {}
    /\ Idle
    /\ NoClient

\* loader.load_csv() on a file with the required columns
CleanStep ==
    /\ pc = "f_input"
    /\ df' = clean_data(n_in)
    /\ pc' = "f_loaded"
    /\ UNCHANGED <<inputVars, socialVars, enable_ai, top_patents, columns, runVars,
                   trendVars, normVars>>

\* filters.apply_all_filters(df)
FilterStep ==
    /\ pc = "f_loaded"
    /\ n_out' = apply_all_filters(df)
    /\ pc' = "f_done"
    /\ UNCHANGED <<inputVars, socialVars, enable_ai, df, top_patents, columns, runVars,
                   trendVars, n_in>>

NextFilter == CleanStep \/ FilterStep

SpecFilter == InitFilter /\ [][NextFilter]_vars

\* ================================================== enrich_patent alone
ItemNames == <<"k1", "k2", "k3", "k4", "k5", "k6", "k7">>

SolarPanel == <<"s", "o", "l", "a", "r", " ", "p", "a", "n", "e", "l">>

\* what a keywords or use_cases field of the response object may hold
ListFields ==
    {Absent, JsonNull, JsonString(SolarPanel)}
    \cup {JsonArray(FirstN(ItemNames, n)) : n \in 0..MaxItems}

TextFields == {Absent, JsonString(SolarPanel)}

\* what the service call does: it raises, or returns text that is not JSON,
\* JSON that is not an object, or a JSON object, with or without a fence
ServiceResponses ==
    {[kind |-> x, fence |-> "none", human_abstract |-> Absent, keywords |-> Absent,
      use_cases |-> Absent, market_potential |-> Absent] :
        x \in {"raises", "not_json", "json_array"}}
    \cup [kind : {"json_object"}, fence : {"none", "json_fence", "plain_fence"},
          human_abstract : TextFields, keywords : ListFields, use_cases : ListFields,
          market_potential : TextFields]

InitEnrich ==
    /\ pc = "e_input"
    /\ n_in \in ServiceResponses
    /\ n_out = <<>>
    /\ config = "Config"
    /\ k = 1
    /\ weights = WEIGHTS(config)
    /\ enable_ai = TRUE
    /\ enable_google_trends = FALSE
    /\ file_columns = RawColumns
    /\ df = <<>>
    /\ top_patents = <<>>
    /\ columns = {}
    /\ Idle
    /\ NoClient

EnrichStep ==
    /\ pc = "e_input"
    /\ n_out' = enrich_patent(n_in)
    /\ pc' = "e_done"
    /\ UNCHANGED <<inputVars, socialVars, enable_ai, df, top_patents, columns, runVars,
                   trendVars, n_in>>

NextEnrich == EnrichStep

SpecEnrich == InitEnrich /\ [][NextEnrich]_vars

\* ------------------------------------------------------------------------
\* One SocialProof client under any sequence of check, check_multiple and
\* compare calls, with the clock advancing between the steps.
MaxTime == 7
MaxDelay == 2
MaxBatch == 2
MaxRequests == 3

\* SocialProof(api_key, search_engine_id, delay)
InitRate ==
    /\ pc = "r_idle"
    /\ delay \in 0..MaxDelay
    /\ last_request = None
    /\ now = Epoch
    /\ todo = 0
    /\ slept = 0
    /\ requests = <<>>
    /\ n_in = <<>>
    /\ n_out = 0
    /\ config = "Config"
    /\ k = 1
    /\ weights = WEIGHTS(config)
    /\ enable_ai = FALSE
    /\ enable_google_trends = FALSE
    /\ file_columns = RawColumns
    /\ df = <<>>
    /\ top_patents = <<>>
    /\ columns = {}
    /\ Idle

\* the variables no SocialProof method touches
notSocial == <<inputVars, enable_ai, df, top_patents, columns, runVars, trendVars, normVars>>

\* a call that will make n checks begins
BeginCall(n) ==
    /\ pc = "r_idle"
    /\ Len(requests) + n <= MaxRequests
    /\ todo' = n
    /\ pc' = IF n = 0 THEN "r_idle" ELSE "r_limit"
    /\ UNCHANGED <<notSocial, delay, last_request, now, slept, requests>>

\* check(keyword, platform)
Check == BeginCall(1)

\* check_multiple(keyword, platforms): one check per platform
CheckMultiple == \E platforms \in 0..MaxBatch : BeginCall(platforms)

\* compare(keywords, platform): one check per keyword
Compare == \E keywords \in 0..MaxBatch : BeginCall(keywords)

\* _rate_limit, lines 59-62: read the clock and decide on the sleep
RateLimit ==
    /\ pc = "r_limit"
    /\ slept' = rate_limit_sleep(last_request, now, delay)
    /\ pc' = IF slept' > 0 THEN "r_sleep" ELSE "r_stamp"
    /\ UNCHANGED <<notSocial, delay, last_request, now, todo, requests>>

\* time.sleep(self.delay - elapsed) suspends for at least the time asked for
Sleep ==
    /\ pc = "r_sleep"
    /\ \E wake \in (now + slept)..MaxTime : now' = wake
    /\ pc' = "r_stamp"
    /\ UNCHANGED <<notSocial, delay, last_request, todo, slept, requests>>

\* _rate_limit line 63 and check lines 84-92: the clock reading is kept in
\* _last_request and the request is sent; nothing blocks in between, so both
\* happen at one reading of the clock
SendRequest ==
    /\ pc = "r_stamp"
    /\ last_request' = now
    /\ requests' = Append(requests, [start |-> now, slept |-> slept])
    /\ todo' = todo - 1
    /\ pc' = "r_request"
    /\ UNCHANGED <<notSocial, delay, now, slept>>

\* check lines 92-114: the response or the exception gives a result; the
\* calling loop goes on to its next check
RequestReturns ==
    /\ pc = "r_request"
    /\ pc' = IF todo > 0 THEN "r_limit" ELSE "r_idle"
    /\ UNCHANGED <<notSocial, socialVars>>

\* the clock advances while the caller, a request or the interpreter takes time
Tick ==
    /\ pc \in {"r_idle", "r_limit", "r_stamp", "r_request"}
    /\ now < MaxTime
    /\ now' = now + 1
    /\ UNCHANGED <<pc, notSocial, delay, last_request, todo, slept, requests>>

NextRate ==
    \/ Check
    \/ CheckMultiple
    \/ Compare
    \/ RateLimit
    \/ Sleep
    \/ SendRequest
    \/ RequestReturns
    \/ Tick

SpecRate == InitRate /\ [][NextRate]_vars

\* ------------------------------------------------------------------------
\* One GoogleTrendsAnalyzer under a sequence of _get_trends_data calls; n_in
\* is the call in progress and n_out the history of the calls that returned.
MaxCalls == 3

\* keywords and timeframes a caller may pass
CacheKeywords == {<<"solar">>, <<"solar", "_", "x">>}
CacheTimeframes == {DefaultTimeframe, <<"x", "_", "today 5-y">>}

NoCall == [keyword |-> <<>>, timeframe |-> <<>>]

InitCache ==
    /\ pc = "c_idle"
    /\ n_in = NoCall
    /\ n_out = <<>>
    /\ config = "Config"
    /\ k = 1
    /\ weights = WEIGHTS(config)
    /\ enable_ai = FALSE
    /\ enable_google_trends = FALSE
    /\ file_columns = RawColumns
    /\ df = <<>>
    /\ top_patents = <<>>
    /\ columns = {}
    /\ Idle
    /\ NoClient

\* the call in progress returns: its entry in the history
Returned(call, how, data, attempts) ==
    Append(n_out, [keyword |-> call.keyword, timeframe |-> call.timeframe,
                   ret |-> how, data |-> data, attempts |-> attempts])

\* _get_trends_data(keyword, timeframe), lines 149-152: a key in the cache is
\* answered from the cache, any other goes to the retry loop
CacheLookup ==
    /\ pc = "c_idle"
    /\ Len(n_out) < MaxCalls
    /\ \E keyword \in CacheKeywords, timeframe \in CacheTimeframes :
           LET call == [keyword |-> keyword, timeframe |-> timeframe]
               key == cache_key(keyword, timeframe)
           IN  IF key \in DOMAIN cache
               THEN /\ n_out' = Returned(call, "cached", cache[key], 0)
                    /\ UNCHANGED <<pc, n_in>>
               ELSE /\ n_in' = call
                    /\ pc' = "c_lookup"
                    /\ UNCHANGED n_out
    /\ UNCHANGED <<inputVars, socialVars, enable_ai, df, top_patents, columns, runVars,
                   trendVars>>

\* one turn of the retry loop (lines 155-207) of the call in progress
CacheAttempt ==
    /\ pc = "c_lookup"
    /\ \E resp \in Responses :
        LET wait == IF resp.kind = "rate_limit" THEN rate_limit_wait(attempt) ELSE 0
            over == \/ resp.kind \in {"data", "empty", "no_column"}
                    \/ last_attempt(attempt)
        IN  /\ last_try' = [kind |-> resp.kind, wait |-> wait]
            /\ cache' = IF resp.kind = "data"
                        THEN (cache_key(n_in.keyword, n_in.timeframe) :> resp.series)
                                 @@ cache
                        ELSE cache
            /\ IF over
               THEN /\ n_out' = Returned(n_in, IF resp.kind = "data" THEN "data" ELSE "None",
                                         resp.series, attempt + 1)
                    /\ n_in' = NoCall
                    /\ attempt' = 0
                    /\ pc' = "c_idle"
               ELSE /\ attempt' = attempt + 1
                    /\ UNCHANGED <<pc, n_in, n_out>>
    /\ UNCHANGED <<inputVars, socialVars, enable_ai, df, top_patents, columns, runVars, t_i,
                   t_k, keyword_results, results, lookup_ret, trend_data, degraded>>

NextCache == CacheLookup \/ CacheAttempt

SpecCache == InitCache /\ [][NextCache]_vars

\* ================================================================ claims
MetricNames == {"citations_patent", "citations_npl", "family_size"}

ScoreOf(r, metric) ==
    CASE metric = "citations_patent" -> r.score_citations_patent
      [] metric = "citations_npl" -> r.score_citations_npl
      [] metric = "family_size" -> r.score_family_size

\* position in the table rows of the row with this index label
PosIn(rows, id) == CHOOSE i \in DOMAIN rows : rows[i].id = id

\* C1: after calculate_scores every normalised score of the three base metrics
\* lies in [0,1], and a metric whose column holds one value throughout (a
\* one-row table included) has the normalised score 0 in every row.
C1_NormalizedInUnitInterval ==
    pc = "s_scored" =>
        \A metric \in MetricNames :
            /\ \A i \in DOMAIN top_patents :
                   ScoreOf(top_patents[i], metric) \in 0..SCALE
            /\ (\A i, j \in DOMAIN df : df[i][metric] = df[j][metric])
                   => \A i \in DOMAIN top_patents : ScoreOf(top_patents[i], metric) = 0

\* C1 witness: a scored three-row table with a score strictly inside (0,1), a
\* score of 1, and a constant column scored 0
C1_Witness ==
    /\ pc = "s_scored"
    /\ Len(top_patents) = 3
    /\ \E i, j \in DOMAIN top_patents :
           /\ top_patents[i].score_citations_patent > 0
           /\ top_patents[i].score_citations_patent < SCALE
           /\ top_patents[j].score_citations_patent = SCALE
    /\ \A i, j \in DOMAIN df : df[i].citations_npl = df[j].citations_npl
    /\ \A i \in DOMAIN top_patents : top_patents[i].score_citations_npl = 0

\* the weights supplied to the scorers before the multiplication by k
SuppliedWeights == [key \in DOMAIN weights |-> WEIGHTS(config)[key]]

\* C2: Final_Score of every record does not change when all supplied weights
\* are multiplied by the same k > 0, for the scorer and for the rescorer: the
\* score computed with k * WEIGHTS equals the score the same record gets with
\* WEIGHTS.
C2_ScaleInvariant ==
    /\ pc = "s_scored" =>
           \A i \in DOMAIN top_patents :
               top_patents[i].Final_Score = base_final_score(top_patents[i], SuppliedWeights)
    /\ pc = "s_rescored" =>
           \A i \in DOMAIN top_patents :
               top_patents[i].Final_Score =
                   trends_final_score(top_patents[i], columns, SuppliedWeights)

\* the rescorer's half of C2 alone
RescorerScaleInvariant ==
    pc = "s_rescored" =>
        \A i \in DOMAIN top_patents :
            top_patents[i].Final_Score =
                trends_final_score(top_patents[i], columns, SuppliedWeights)

\* C3: the scorer and the rescorer return the rows in descending Final_Score
\* order, and rows with equal Final_Score keep the relative order they had in
\* the table passed in.
C3_StableDescending ==
    pc \in {"s_scored", "s_rescored"} =>
        /\ IsDescending(top_patents)
        /\ \A i, j \in DOMAIN top_patents :
               (i < j /\ top_patents[i].Final_Score = top_patents[j].Final_Score)
                   => PosIn(df, top_patents[i].id) < PosIn(df, top_patents[j].id)

\* the descending half of C3 alone
SortedDescending ==
    pc \in {"s_scored", "s_rescored"} => IsDescending(top_patents)

\* the multiplier the specification gives a direction, times MSCALE
ClaimedMultiplier(direction) ==
    CASE direction = "rising" -> 13
      [] direction = "falling" -> 7
      [] OTHER -> 10

\* C10: the keyword score is clamp(average_interest/100 * multiplier, 0, 1)
\* with multiplier 1.3 (rising), 0.7 (falling), 1.0 (stable, unknown); it lies
\* in [0,1] for every interest in [0,100]; 80 rising gives 1.0 and 50 falling
\* gives 0.35.
C10_NormalizeScore ==
    pc = "n_done" =>
        LET raw == n_in.avg_interest * ClaimedMultiplier(n_in.trend_direction)
        IN  /\ n_out \in 0..SCALE
            /\ n_out = IF raw > SCALE THEN SCALE ELSE raw
            /\ (n_in.avg_interest = 80 * ISCALE /\ n_in.trend_direction = "rising")
                   => n_out = SCALE
            /\ (n_in.avg_interest = 50 * ISCALE /\ n_in.trend_direction = "falling")
                   => n_out = 3500

\* C10 witness: interest 80 rising has been scored 1.0 (the ceiling clamps)
C10_Witness ==
    /\ pc = "n_done"
    /\ n_in.avg_interest = 80 * ISCALE
    /\ n_in.trend_direction = "rising"
    /\ n_out = SCALE

StageRank(st) ==
    CASE st = "Loaded" -> 1
      [] st = "Filtered" -> 2
      [] st = "Scored" -> 3
      [] st = "Enriched" -> 4
      [] st = "TrendAggregated" -> 5
      [] st = "Rescored" -> 6
      [] st = "Exported" -> 7

StagesDone == {stages[i] : i \in DOMAIN stages}

TrendScoreOf(r, cols) ==
    IF "Google_Trends_Average_Score" \in cols
    THEN r.Google_Trends_Average_Score
    ELSE r.Google_Trends_Score

\* the score a record has when the trend score is included
ScoreWithTrend(r, cols, w) ==
    LET nw == normalized_weights(w)
    IN  r.score_citations_patent * nw.citations_patent
        + r.score_citations_npl * nw.citations_npl
        + r.score_family_size * nw.family_size
        + TrendScoreOf(r, cols) * nw.google_trends

\* C5: whenever the trend stage has run, Final_Score of every exported record
\* is the renormalised weighted sum of its three normalised metrics and its
\* trend score, on both trend paths and under every shipped configuration.
C5_ExportedScoreIncludesTrend ==
    ("TrendAggregated" \in StagesDone /\ exported.written) =>
        \A i \in DOMAIN exported.rows :
            exported.rows[i].Final_Score
                = ScoreWithTrend(exported.rows[i], columns, WEIGHTS(config))

\* C6: a run whose source table was loaded always reaches the export stage.
C6_LoadedRunExports ==
    (pc = "done" /\ "Loaded" \in StagesDone) => "Exported" \in StagesDone

\* C7: when the enrichment service is unavailable main warns, skips the
\* enrichment (no AI columns), the trend stage uses the title-derived keywords,
\* and the run is exported and returns the table.
C7_AIUnavailableIsSkipped ==
    "AI enrichment skipped" \in warnings =>
        /\ "Enriched" \notin StagesDone
        /\ "AI_Keywords_List" \notin columns
        /\ "Google_Trends_Average_Score" \notin columns
        /\ pc = "done" =>
               /\ "Exported" \in StagesDone
               /\ ret = "table"
               /\ enable_google_trends => "Google_Trends_Score" \in columns

RowById(id) == top_patents[PosIn(top_patents, id)]

SlotKeyword(d, i) ==
    CASE i = 1 -> d.Google_Trends_Keyword_1
      [] i = 2 -> d.Google_Trends_Keyword_2
      [] i = 3 -> d.Google_Trends_Keyword_3

SlotScore(d, i) ==
    CASE i = 1 -> d.Google_Trends_Score_1
      [] i = 2 -> d.Google_Trends_Score_2
      [] i = 3 -> d.Google_Trends_Score_3

SlotDirection(d, i) ==
    CASE i = 1 -> d.Google_Trends_Direction_1
      [] i = 2 -> d.Google_Trends_Direction_2
      [] i = 3 -> d.Google_Trends_Direction_3

SlotInterest(d, i) ==
    CASE i = 1 -> d.Google_Trends_Interest_1
      [] i = 2 -> d.Google_Trends_Interest_2
      [] i = 3 -> d.Google_Trends_Interest_3

RECURSIVE SlotScoreSum(_, _)
SlotScoreSum(d, n) == IF n = 0 THEN 0 ELSE SlotScore(d, n) + SlotScoreSum(d, n - 1)

InTrendLoop == pc \in {"t_row", "t_kw", "t_lookup", "t_ret"}

\* C8: a failed lookup gives that keyword the zero result (score 0, direction
\* unknown, interest 0) and nothing else: the record's other keywords and the
\* later records are still processed, every record gets its result, and the
\* record's average is taken over all its keyword results, the degraded ones
\* included.
C8_LookupFailureDegradesOneKeyword ==
    /\ InTrendLoop => Len(results) = t_i - 1
    /\ (UseAIKeywords /\ pc \in {"t_kw", "t_lookup", "t_ret"}) =>
           Len(keyword_results) = t_k - 1
    /\ \A i \in DOMAIN keyword_results :
           (InTrendLoop /\ t_i <= Len(top_patents) /\ pc # "t_row"
                /\ <<top_patents[t_i].id, i>> \in degraded) =>
               /\ keyword_results[i].score = 0
               /\ keyword_results[i].direction = "unknown"
               /\ keyword_results[i].avg_interest = 0
    /\ \A j \in DOMAIN results :
           LET d == results[j]
               row == RowById(d.index)
           IN  IF UseAIKeywords
               THEN LET kws == FirstN(row.AI_Keywords_List, 3)
                    IN  IF kws = <<>> THEN d = empty_trends_result(d.index)
                        ELSE /\ \A i \in 1..Len(kws) :
                                    /\ SlotKeyword(d, i) = kws[i]
                                    /\ <<d.index, i>> \in degraded =>
                                           /\ SlotScore(d, i) = 0
                                           /\ SlotDirection(d, i) = "unknown"
                                           /\ SlotInterest(d, i) = 0
                             /\ d.Google_Trends_Average_Score
                                    = SlotScoreSum(d, Len(kws)) \div Len(kws)
               ELSE <<d.index, 1>> \in degraded =>
                        /\ d.Google_Trends_Score = 0
                        /\ d.Google_Trends_Direction = "unknown"
                        /\ d.Google_Trends_Avg_Interest = 0
    /\ "TrendAggregated" \in StagesDone =>
           /\ Len(results) = Len(top_patents)
           /\ \A i \in DOMAIN top_patents :
                  \E j \in DOMAIN results : results[j].index = top_patents[i].id
    /\ (pc = "done" /\ degraded # {}) => "TrendAggregated" \in StagesDone

\* C8 witness: the trend stage is complete; the first keyword of the first
\* record failed, a later keyword of that record and a later record have a
\* positive score, and the record's average counts the failed keyword
C8_Witness ==
    /\ "TrendAggregated" \in StagesDone
    /\ UseAIKeywords
    /\ Len(results) = 2
    /\ <<results[1].index, 1>> \in degraded
    /\ "Google_Trends_Score_3" \in DOMAIN results[1]
    /\ results[1].Google_Trends_Score_3 > 0
    /\ results[1].Google_Trends_Average_Score = results[1].Google_Trends_Score_3 \div 3
    /\ results[2].Google_Trends_Average_Score > 0

\* C9: a lookup makes at most 3 attempts; a rate-limit error is followed by a
\* sleep of 30 s times the attempt number (30, 60, 90) and, before the third
\* attempt is over, by a retry; only failed attempts are retried; after the
\* third failed attempt the lookup returns None.
C9_BoundedRetries ==
    /\ attempt \in 0..3
    /\ pc = "t_lookup" =>
           /\ attempt < 3
           /\ attempt > 0 => last_try.kind \in {"rate_limit", "error"}
    /\ last_try.kind = "rate_limit" =>
           /\ last_try.wait = 30 * attempt
           /\ (attempt < 3 => pc = "t_lookup")
    /\ last_try.kind # "rate_limit" => last_try.wait = 0
    /\ (attempt = 3 /\ last_try.kind \in {"rate_limit", "error"}) =>
           /\ pc = "t_ret"
           /\ lookup_ret = "None"
           /\ trend_data = <<>>

\* C9 witness: the third attempt hit the rate limit, the lookup slept 90 s and
\* returned None
C9_Witness ==
    /\ pc = "t_ret"
    /\ attempt = 3
    /\ last_try = [kind |-> "rate_limit", wait |-> 90]
    /\ lookup_ret = "None"

\* the direction the rule gives when the change is compared with +-25 % exactly
ClaimedDirection(series) ==
    IF Len(series) < 10 THEN "unknown"
    ELSE LET mid == Len(series) \div 2
             n1 == mid
             n2 == Len(series) - mid
             s1 == SeqSum(SubSeq(series, 1, mid))
             s2 == SeqSum(SubSeq(series, mid + 1, Len(series)))
         IN  IF s1 = 0 THEN "stable"
             ELSE IF (s2 * n1 - s1 * n2) * 100 > 25 * s1 * n2 THEN "rising"
             ELSE IF (s2 * n1 - s1 * n2) * 100 < (0 - 25) * s1 * n2 THEN "falling"
             ELSE "stable"

\* C11: the direction of a series is unknown below 10 points; otherwise the
\* series is split at len//2 and the change of the second-half mean against
\* the first-half mean decides: above +25 % rising, below -25 % falling, and
\* anything else, exactly +25 % and exactly -25 % included, stable.
C11_TrendDirection ==
    pc = "d_done" => n_out = ClaimedDirection(n_in)

\* the rule holds wherever the change is not exactly +25 % or -25 %
DirectionOffBoundary ==
    LET mid == Len(n_in) \div 2
        s1 == SeqSum(SubSeq(n_in, 1, mid))
        s2 == SeqSum(SubSeq(n_in, mid + 1, Len(n_in)))
        d == (s2 * mid - s1 * (Len(n_in) - mid)) * 100
        q == 25 * s1 * (Len(n_in) - mid)
    IN  (pc = "d_done" /\ d # q /\ d # 0 - q) => n_out = ClaimedDirection(n_in)

\* number of the analysed keywords of the aggregated row with this direction
DirectionCount(d) ==
    Cardinality({i \in DOMAIN n_in.outcomes : n_in.outcomes[i].trend_direction = d})

\* C12: the consensus of a row with 1 to 3 keyword results is Rising when at
\* least 2 directions are rising, Falling when at least 2 are falling, Mixed
\* otherwise; a row with no keywords gets a result with the label Unknown.
C12_Consensus ==
    pc = "a_done" =>
        /\ n_out.index = n_in.idx
        /\ n_out.Google_Trends_Consensus =
               IF n_in.keywords_list = <<>> THEN "Unknown"
               ELSE IF DirectionCount("rising") >= 2 THEN "Rising"
               ELSE IF DirectionCount("falling") >= 2 THEN "Falling"
               ELSE "Mixed"

\* C12 witness: directions rising, rising, falling aggregated to Rising
C12_Witness ==
    /\ pc = "a_done"
    /\ Len(n_in.outcomes) = 3
    /\ n_in.outcomes[1].trend_direction = "rising"
    /\ n_in.outcomes[2].trend_direction = "rising"
    /\ n_in.outcomes[3].trend_direction = "falling"
    /\ n_out.Google_Trends_Consensus = "Rising"

RECURSIVE FinalScoreSum(_)
FinalScoreSum(q) == IF q = <<>> THEN 0 ELSE Head(q).final_score + FinalScoreSum(Tail(q))

\* C13: Google_Trends_Average_Score is the arithmetic mean (to the unit of
\* the fixed point) of the normalised scores of the keywords analysed, and 0
\* for a row with no keywords.
C13_AverageScore ==
    pc = "a_done" =>
        LET n == Len(n_in.outcomes)
            avg == n_out.Google_Trends_Average_Score
        IN  IF n_in.keywords_list = <<>> THEN avg = 0
            ELSE /\ n * avg <= FinalScoreSum(n_in.outcomes)
                 /\ FinalScoreSum(n_in.outcomes) < n * avg + n

\* C13 witness: two keywords, one lookup failed, the other scored
C13_Witness ==
    /\ pc = "a_done"
    /\ Len(n_in.outcomes) = 2
    /\ n_in.outcomes[1] = empty_result
    /\ n_in.outcomes[2].final_score > 0
    /\ n_out.Google_Trends_Average_Score = n_in.outcomes[2].final_score \div 2

\* C14: the best keyword is the first, in keyword order, of the keywords whose
\* normalised score is maximal among the row's keyword results.
C14_BestKeyword ==
    (pc = "a_done" /\ n_in.keywords_list # <<>>) =>
        \E i \in DOMAIN n_in.outcomes :
            /\ n_out.Google_Trends_Best_Keyword = n_in.keywords_list[i]
            /\ \A j \in DOMAIN n_in.outcomes :
                   n_in.outcomes[j].final_score <= n_in.outcomes[i].final_score
            /\ \A j \in 1..(i - 1) :
                   n_in.outcomes[j].final_score < n_in.outcomes[i].final_score

\* C14 witness: the second and third keyword share the maximal score and the
\* second is chosen
C14_Witness ==
    /\ pc = "a_done"
    /\ Len(n_in.outcomes) = 3
    /\ n_in.outcomes[1].final_score < n_in.outcomes[2].final_score
    /\ n_in.outcomes[2].final_score = n_in.outcomes[3].final_score
    /\ n_out.Google_Trends_Best_Keyword = n_in.keywords_list[2]

\* the all-failed case of C14: when every lookup failed, every score is 0 and
\* the first keyword is the best one
AllFailedBestIsFirst ==
    (pc = "a_done" /\ n_in.keywords_list # <<>>
        /\ \A i \in DOMAIN n_in.outcomes : n_in.outcomes[i] = empty_result) =>
        n_out.Google_Trends_Best_Keyword = n_in.keywords_list[1]

\* C15: the rows apply_all_filters returns are rows of its input, each at most
\* once and in the input's order, and every one of them has the legal status
\* EXPIRED and at least MIN_CITATIONS_TOTAL forward plus NPL citations.
C15_FilterMonotonic ==
    pc = "f_done" =>
        /\ Len(n_out) <= Len(df)
        /\ \A i \in DOMAIN n_out :
               /\ n_out[i].id \in DOMAIN df
               /\ n_out[i] = df[n_out[i].id]
               /\ n_out[i].legal_status = "EXPIRED"
               /\ n_out[i].citations_patent + n_out[i].citations_npl >= MIN_CITATIONS_TOTAL
        /\ \A i, j \in DOMAIN n_out : i < j => n_out[i].id < n_out[j].id

\* C15 witness: of two rows the filter dropped the first, which is EXPIRED
\* with too few citations, and kept the second, which has exactly the minimum
C15_Witness ==
    /\ pc = "f_done"
    /\ Len(df) = 2
    /\ df[1].legal_status = "EXPIRED"
    /\ df[1].citations_patent + df[1].citations_npl < MIN_CITATIONS_TOTAL
    /\ Len(n_out) = 1
    /\ n_out[1].id = 2
    /\ n_out[1].citations_patent + n_out[1].citations_npl = MIN_CITATIONS_TOTAL

\* C16: with the enrichment and the trend stage not run, the export holds
\* exactly the filtered rows when there are at most TOP_N_PATENTS of them,
\* every exported row has a Final_Score that is not null, Final_Score is the
\* first output column, and the rows are in descending Final_Score order.
C16_EndToEndBaseRun ==
    (exported.written /\ "Enriched" \notin StagesDone /\ "TrendAggregated" \notin StagesDone) =>
        /\ Len(df) <= TOP_N_PATENTS =>
               /\ Len(exported.rows) = Len(df)
               /\ \A i \in DOMAIN df :
                      \E j \in DOMAIN exported.rows :
                          /\ exported.rows[j].id = df[i].id
                          /\ \A c \in DOMAIN df[i] : exported.rows[j][c] = df[i][c]
        /\ \A j \in DOMAIN exported.rows :
               /\ "Final_Score" \in DOMAIN exported.rows[j]
               /\ exported.rows[j].Final_Score # NaN
        /\ exported.columns[1] = "Final_Score"
        /\ IsDescending(exported.rows)

\* C16 witness: a finished run without the optional stages whose two filtered
\* rows were exported in the reverse of their file order, the higher score first
C16_Witness ==
    /\ pc = "done"
    /\ ret = "table"
    /\ stages = <<"Loaded", "Filtered", "Scored", "Exported">>
    /\ Len(df) = 2
    /\ Len(exported.rows) = 2
    /\ exported.rows[1].id = df[2].id
    /\ exported.rows[1].Final_Score > exported.rows[2].Final_Score

\* batch_enrich was called: enable_ai is still set past the enrichment stage
EnrichCalled ==
    enable_ai /\ "Scored" \in StagesDone /\ pc \notin {"load", "filter", "score", "ai"}

\* the trend stage was called and is over
TrendCalled ==
    /\ enable_google_trends
    /\ "Scored" \in StagesDone
    /\ pc \in {"rescore", "export", "summary", "done"}
    /\ EnrichCalled => "Enriched" \in StagesDone

\* the table in flight has exactly the scored rows: the first TOP_N_PATENTS of
\* the filtered rows, each once, with the cells it was loaded with
SameRows ==
    /\ Len(top_patents) = Min2(Len(df), TOP_N_PATENTS)
    /\ \A i, j \in DOMAIN top_patents : top_patents[i].id = top_patents[j].id => i = j
    /\ \A i \in DOMAIN top_patents :
           \E j \in DOMAIN df :
               /\ df[j].id = top_patents[i].id
               /\ \A c \in DOMAIN df[j] : top_patents[i][c] = df[j][c]

\* C17: batch_enrich, batch_analyze and _trends_with_ai_keywords return a
\* table with exactly the rows of their input and new columns only; a row with
\* no keywords or whose lookups all failed is still there, with the zero-score
\* empty result.
C17_StagesPreserveRows ==
    /\ EnrichCalled => "Enriched" \in StagesDone
    /\ TrendCalled => "TrendAggregated" \in StagesDone
    /\ "Scored" \in StagesDone => SameRows
    /\ "Enriched" \in StagesDone =>
           \A i \in DOMAIN top_patents : "AI_Keywords_List" \in DOMAIN top_patents[i]
    /\ "TrendAggregated" \in StagesDone =>
           \A i \in DOMAIN top_patents :
               LET r == top_patents[i]
               IN  IF "Google_Trends_Average_Score" \in columns
                   THEN /\ r.AI_Keywords_List = <<>> =>
                               /\ r.Google_Trends_Average_Score = 0
                               /\ r.Google_Trends_Consensus = "Unknown"
                               /\ r.Google_Trends_Score_1 = 0
                        /\ (\A n \in 1..Len(FirstN(r.AI_Keywords_List, 3)) :
                                <<r.id, n>> \in degraded) =>
                               r.Google_Trends_Average_Score = 0
                   ELSE <<r.id, 1>> \in degraded =>
                            /\ r.Google_Trends_Score = 0
                            /\ r.Google_Trends_Direction = "unknown"

MissingColumns == RawColumns \ file_columns

\* C18: when the source file lacks required columns, load_csv raises an error
\* that names every missing column, main returns None, and no stage (load,
\* filter, score, enrichment, trend, export) has executed.
C18_MissingColumnsAbort ==
    /\ "Loaded" \in StagesDone => MissingColumns = {}
    /\ MissingColumns # {} =>
           /\ stages = <<>>
           /\ ~exported.written
           /\ df = <<>>
           /\ top_patents = <<>>
           /\ pc \in {"load", "done"}
           /\ (pc = "done" /\ error.type # "FileNotFoundError") =>
                  /\ ret = "None"
                  /\ error.type = "KeyError"
                  /\ {error.names[i] : i \in DOMAIN error.names} = MissingColumns

\* C18 witness: the file has neither a title nor a URL column, and the run
\* ended with the error naming both
C18_Witness ==
    /\ file_columns = RawColumns \ {"title", "url"}
    /\ pc = "done"
    /\ ret = "None"
    /\ error = [type |-> "KeyError", names |-> <<"title", "url">>]
    /\ stages = <<>>

ExportedColumns == {exported.columns[i] : i \in DOMAIN exported.columns}

\* the column order stated for the export, given the columns of the table
ClaimedColumnOrder(cols) ==
    LET Present(c) == c \in cols
    IN  <<"Final_Score", "title", "pub_year", "citations_patent", "citations_npl",
          "family_size">>
        \o SelectSeq(<<"AI_Human_Abstract", "AI_Keywords", "AI_Use_Cases",
                       "AI_Market_Potential">>, Present)
        \o SelectSeq(<<"Google_Trends_Average_Score", "Google_Trends_Best_Keyword",
                       "Google_Trends_Consensus">>, Present)
        \o SelectSeq(IndividualColumns, Present)
        \o <<"Unlocked_Comment", "abstract", "url">>

\* C19: the exported columns are, in this order, the final score, title,
\* publication year, the three raw metrics, the enrichment columns present, the
\* trend columns present (aggregates, then the keyword slots), the annotation
\* column, abstract and URL; and whenever the trend stage ran, on either path,
\* every column it produced is among them.
C19_ExportColumns ==
    exported.written =>
        /\ exported.columns = ClaimedColumnOrder(columns)
        /\ "TrendAggregated" \in StagesDone => ResultColumns(results) \subseteq ExportedColumns

\* the columns of the AI-keyword path are exported
AIPathTrendColumnsExported ==
    (exported.written /\ "Google_Trends_Average_Score" \in columns) =>
        /\ exported.columns = ClaimedColumnOrder(columns)
        /\ ResultColumns(results) \subseteq ExportedColumns

\* the response is the expected JSON object: an object whose summary and
\* market note, where present, are strings and whose keywords and use cases,
\* where present, are arrays
ExpectedObject(response) ==
    /\ response.kind = "json_object"
    /\ response.human_abstract.json \in {"absent", "string"}
    /\ response.market_potential.json \in {"absent", "string"}
    /\ response.keywords.json \in {"absent", "array"}
    /\ response.use_cases.json \in {"absent", "array"}

\* C20: when the service call raises or its output is not the expected JSON
\* object, enrich_patent returns the empty result; and every result has a list
\* of at most 5 keywords and a list of at most 3 use cases.
C20_EnrichFailsClosed ==
    pc = "e_done" =>
        /\ ~ExpectedObject(n_in) => n_out = empty_enrichment
        /\ n_out.keywords.json = "array"
        /\ Len(n_out.keywords.items) <= 5
        /\ n_out.use_cases.json = "array"
        /\ Len(n_out.use_cases.items) <= 3

\* what does hold: a call that raises, or text that is not a JSON object,
\* gives the empty result, and every result has at most 5 and 3 items
EnrichFailsClosedOnNonObject ==
    pc = "e_done" =>
        /\ n_in.kind # "json_object" => n_out = empty_enrichment
        /\ Len(n_out.keywords.items) <= 5
        /\ Len(n_out.use_cases.items) <= 3

\* the value C21 expects for a weight the configuration lacks: the rescorer's
\* default for that metric
FallbackWeight(key) ==
    CASE key = "citations_patent" -> 30
      [] key = "citations_npl" -> 30
      [] key = "family_size" -> 20
      [] key = "google_trends" -> 20

\* C21: when the configuration lacks the weight of a known metric, the base
\* scorer and the rescorer do not fail: each returns a scored table.
C21_MissingWeightFallsBack ==
    (DOMAIN weights # DOMAIN WEIGHTS(config)) =>
        /\ pc # "s_failed"
        /\ error = NoError

\* the rescorer's half of C21: without the google_trends weight the rescorer
\* scores every record with the fallback weight
RescorerFallsBack ==
    (pc = "s_rescored" /\ "google_trends" \notin DOMAIN weights) =>
        \A i \in DOMAIN top_patents :
            top_patents[i].Final_Score =
                trends_final_score(top_patents[i], columns,
                    [key \in MetricNames \cup {"google_trends"} |->
                        WeightGet(weights, key, FallbackWeight(key))])

\* a rescored table under a configuration without the google_trends weight
RescorerFallsBackWitness ==
    /\ pc = "s_rescored"
    /\ "google_trends" \notin DOMAIN weights
    /\ Len(top_patents) > 1
    /\ \E i \in DOMAIN top_patents : top_patents[i].Final_Score > 0

\* C22: a scoring step fails with an error when a metric column it needs is
\* absent: the base scorer does not return a table that lacks a metric column,
\* and the rescorer does not return one that lacks the aggregated trend score.
C22_MissingMetricFailsFast ==
    /\ missing_metrics(columns) # <<>> => pc \in {"s_input", "s_failed"}
    /\ "Google_Trends_Average_Score" \notin columns => pc # "s_rescored"

\* the base scorer's half of C22
BaseScorerFailsFast ==
    /\ missing_metrics(columns) # <<>> => pc \in {"s_input", "s_failed"}
    /\ (pc = "s_failed" /\ missing_metrics(columns) # <<>>) =>
           error = [type |-> "KeyError", names |-> <<Head(missing_metrics(columns))>>]

\* the base scorer has raised on a table without a metric column
BaseScorerFailsFastWitness ==
    /\ pc = "s_failed"
    /\ "family_size" \notin columns
    /\ Len(df) > 0
    /\ error = [type |-> "KeyError", names |-> <<"family_size">>]

\* the raw attributes of a scored row
RawAttributes(r) == [col \in DOMAIN r \cap ({"id"} \cup MetricNames) |-> r[col]]

\* C23: calculate_scores and _recalculate_with_trends leave the table object
\* passed to them as it was when the call began, and every record of the
\* returned table carries the raw attributes of the input record with the
\* same index label.
C23_ScoringLeavesInputUnchanged ==
    pc \in {"s_scored", "s_rescored"} =>
        /\ df = n_in
        /\ Len(top_patents) = Len(n_in)
        /\ \A i \in DOMAIN top_patents :
               RawAttributes(top_patents[i])
                   = RawAttributes(n_in[PosIn(n_in, top_patents[i].id)])

\* the base scorer's half of C23, and the raw attributes after either scorer
ScorerCopiesInput ==
    /\ pc = "s_scored" => df = n_in
    /\ pc \in {"s_scored", "s_rescored"} =>
           /\ Len(top_patents) = Len(n_in)
           /\ \A i \in DOMAIN top_patents :
                  RawAttributes(top_patents[i])
                      = RawAttributes(n_in[PosIn(n_in, top_patents[i].id)])

\* a scored table of several rows whose order differs from the input's
ScorerCopiesInputWitness ==
    /\ pc = "s_scored"
    /\ Len(top_patents) > 1
    /\ top_patents[1].id # 1
    /\ df = n_in

\* C24: for one SocialProof client, every request starts at least `delay`
\* after the start of the request before it, whatever calls issue them, and
\* the first request is sent without any rate-limit sleep.
C24_RateLimit ==
    /\ \A i \in 2..Len(requests) : requests[i].start - requests[i - 1].start >= delay
    /\ Len(requests) > 0 => requests[1].slept = 0

\* C24 witness: three requests with a positive delay; one was held back by
\* the rate limit to exactly `delay` after its predecessor, another came late
\* enough to be sent at once
C24_Witness ==
    /\ Len(requests) = 3
    /\ delay > 0
    /\ \E i, j \in 2..3 :
           /\ requests[i].slept > 0
           /\ requests[i].start - requests[i - 1].start = delay
           /\ requests[j].slept = 0

\* the columns of the keyword slots 1..n
SlotColumns(n) ==
    UNION {{"Google_Trends_Keyword_" \o c, "Google_Trends_Score_" \o c,
            "Google_Trends_Direction_" \o c, "Google_Trends_Interest_" \o c} :
              c \in {<<"1", "2", "3">>[i] : i \in 1..n}}

\* C25: on the AI-keyword path the aggregator looks up only the first three
\* keywords of a record, in their order: the keyword under analysis is one of
\* the first three, a record has at most three keyword results, keyword result
\* i and slot i belong to the record's i-th keyword, slot i holds the score,
\* direction and interest of keyword result i, and no slot exists beyond the
\* keywords analysed.
C25_FirstThreeKeywords ==
    UseAIKeywords =>
        /\ pc \in {"t_kw", "t_lookup", "t_ret"} =>
               /\ t_k \in 1..3
               /\ t_k <= Len(top_patents[t_i].AI_Keywords_List)
               /\ Len(keyword_results) = t_k - 1
               /\ \A i \in DOMAIN keyword_results :
                      keyword_results[i].keyword = top_patents[t_i].AI_Keywords_List[i]
        /\ \A j \in DOMAIN results :
               LET d == results[j]
                   list == RowById(d.index).AI_Keywords_List
                   n == Min2(Len(list), 3)
               IN  /\ \A i \in 1..n : SlotKeyword(d, i) = list[i]
                   /\ list # <<>> =>
                          DOMAIN d \cap SlotColumns(3) = SlotColumns(n)
                   /\ (pc = "t_row" /\ j = Len(results) /\ list # <<>>) =>
                          /\ Len(keyword_results) = n
                          /\ \A i \in 1..n :
                                 /\ SlotScore(d, i) = keyword_results[i].score
                                 /\ SlotDirection(d, i) = keyword_results[i].direction
                                 /\ SlotInterest(d, i) = keyword_results[i].avg_interest

\* C25 witness: a record with four AI keywords is aggregated; its three slots
\* hold the first three keywords, the third with a positive score, and the
\* fourth keyword is in no slot
C25_Witness ==
    /\ UseAIKeywords
    /\ pc = "t_row"
    /\ results # <<>>
    /\ LET d == results[Len(results)]
           list == RowById(d.index).AI_Keywords_List
       IN  /\ Len(list) = 4
           /\ \A i \in 1..3 : SlotKeyword(d, i) = list[i]
           /\ SlotScore(d, 3) > 0
           /\ DOMAIN d \cap SlotColumns(3) = SlotColumns(3)

\* the lookups of the history made with the pair of lookup j, before it
EarlierLookups(j) ==
    {i \in 1..(j - 1) : /\ n_out[i].keyword = n_out[j].keyword
                        /\ n_out[i].timeframe = n_out[j].timeframe}

\* a lookup that fetched data from the service
Succeeded(i) == n_out[i].ret = "data"

\* the first part of C26: after a successful lookup of a pair every later
\* lookup of the pair is answered with the same data and no service call
CacheAnswersRepeats ==
    \A j \in DOMAIN n_out :
        \A i \in EarlierLookups(j) :
            Succeeded(i) =>
                /\ n_out[j].ret = "cached"
                /\ n_out[j].attempts = 0
                /\ n_out[j].data = n_out[i].data

\* the last part of C26: every cache entry is the data of the first
\* successful lookup with its key, so none was overwritten or evicted
CacheKeepsEntries ==
    \A i \in DOMAIN n_out :
        Succeeded(i) =>
            LET key == cache_key(n_out[i].keyword, n_out[i].timeframe)
            IN  /\ key \in DOMAIN cache
                /\ cache[key] = n_out[i].data

\* the middle part of C26: a pair whose lookups so far all failed is not in
\* the cache, so the next lookup of the pair calls the service
FailedLookupsCallAgain ==
    \A j \in DOMAIN n_out :
        (EarlierLookups(j) # {} /\ \A i \in EarlierLookups(j) : n_out[i].ret = "None")
            => n_out[j].attempts > 0

KeysCollide ==
    \E i, j \in DOMAIN n_out :
        /\ cache_key(n_out[i].keyword, n_out[i].timeframe)
               = cache_key(n_out[j].keyword, n_out[j].timeframe)
        /\ n_out[i].keyword # n_out[j].keyword

\* what holds of C26 in the code: the first and the last part always, the
\* middle part while no two pairs looked up share a key
CacheSoundUpToCollisions ==
    /\ CacheAnswersRepeats
    /\ CacheKeepsEntries
    /\ ~KeysCollide => FailedLookupsCallAgain

\* a repeat answered from the cache after a success, and a failed pair sent
\* to the service again, with no colliding keys
CacheSoundWitness ==
    /\ Len(n_out) = 3
    /\ ~KeysCollide
    /\ \E i, j \in DOMAIN n_out :
           /\ i \in EarlierLookups(j)
           /\ \/ Succeeded(i) /\ n_out[j].ret = "cached"
              \/ n_out[i].ret = "None" /\ n_out[j].attempts > 0

\* C27: a run of main that completed the export returns the exported table:
\* nothing after the export raises, whatever stages are enabled.
C27_ExportedRunReturnsTable ==
    (pc = "done" /\ "Exported" \in StagesDone) =>
        /\ ret = "table"
        /\ error = NoError

\* what holds of C27 in the code: the run returns the table unless the trend
\* stage ran on the AI keywords
ExportedRunReturnsTableOffAIPath ==
    (pc = "done" /\ "Exported" \in StagesDone
         /\ ~(enable_google_trends /\ "AI_Keywords_List" \in columns)) =>
        /\ ret = "table"
        /\ error = NoError

\* an exported run with the trend stage on the title keywords returns the table
ExportedRunReturnsTableWitness ==
    /\ pc = "done"
    /\ "Exported" \in StagesDone
    /\ "TrendAggregated" \in StagesDone
    /\ "Google_Trends_Score" \in columns
    /\ ret = "table"

\* the ranking a table carries: index label and Final_Score, row by row
Ranking(rows) == [i \in DOMAIN rows |-> <<rows[i].id, rows[i].Final_Score>>]

\* C28: under a configuration whose google_trends weight is 0, no step after
\* the base scoring changes the ranking: the enrichment, the trend stage with
\* lookups that succeed or fail, and the step to the export leave every
\* Final_Score and the row order as the scorer returned them, and the export
\* holds the first TOP_N_PATENTS rows of that ranking.
C28_ZeroWeightTrendNeutral ==
    [][(WEIGHTS(config).google_trends = 0 /\ "Scored" \in StagesDone) =>
           /\ Ranking(top_patents') = Ranking(top_patents)
           /\ exported'.written =>
                  Ranking(exported'.rows) = Ranking(FirstN(top_patents, TOP_N_PATENTS))]_vars

\* C28 witness: an exported run under a zero trend weight whose trend stage
\* gave one record a positive trend score and failed for the other, while the
\* exported Final_Score values are those of the base scorer
C28_Witness ==
    /\ WEIGHTS(config).google_trends = 0
    /\ exported.written
    /\ "TrendAggregated" \in StagesDone
    /\ "Rescored" \notin StagesDone
    /\ Len(exported.rows) = 2
    /\ degraded # {}
    /\ \E i \in DOMAIN top_patents : TrendScoreOf(top_patents[i], columns) > 0
    /\ exported.rows[1].Final_Score > exported.rows[2].Final_Score
    /\ \A i \in DOMAIN exported.rows :
           exported.rows[i].Final_Score
               = base_final_score(exported.rows[i], WEIGHTS(config))

\* C29: under the weights of a shipped configuration Final_Score of every
\* record lies in [0,1], after the base scoring and after the rescoring with
\* trends.
C29_FinalScoreInUnitInterval ==
    (weights = WEIGHTS(config) /\ pc \in {"s_scored", "s_trends", "s_rescored"}) =>
        \A i \in DOMAIN top_patents :
            top_patents[i].Final_Score \in 0..(SCALE * WSCALE)

\* C29 witness: a rescored table under ConfigWithTrends in which one record
\* has the greatest value of every metric and the trend score 1, and the
\* Final_Score 1, and another record a score strictly inside (0,1)
C29_Witness ==
    /\ pc = "s_rescored"
    /\ config = "ConfigWithTrends"
    /\ weights = WEIGHTS(config)
    /\ \E i, j \in DOMAIN top_patents :
           /\ top_patents[i].score_google_trends = SCALE
           /\ \A metric \in MetricNames : ScoreOf(top_patents[i], metric) = SCALE
           /\ top_patents[i].Final_Score = SCALE * WSCALE
           /\ top_patents[j].Final_Score > 0
           /\ top_patents[j].Final_Score < SCALE * WSCALE

\* the sum of the first half of a series, as _calculate_trend_direction splits it
FirstHalfSum(series) == SeqSum(SubSeq(series, 1, Len(series) \div 2))

\* C30: a series of at least 10 points whose first-half mean is 0 has the
\* direction 'stable' whatever its second half holds, and so the multiplier
\* 1.0 and not the 1.3 of a rising trend.
C30_ZeroFirstHalfIsStable ==
    (pc = "d_done" /\ Len(n_in) >= 10 /\ FirstHalfSum(n_in) = 0) =>
        /\ n_out = "stable"
        /\ multiplier(n_out) = MSCALE

\* C30 witness: ten points or more, the first half all 0 and the second half
\* positive, found stable
C30_Witness ==
    /\ pc = "d_done"
    /\ Len(n_in) >= 10
    /\ FirstHalfSum(n_in) = 0
    /\ \A i \in (Len(n_in) \div 2 + 1)..Len(n_in) : n_in[i] > 0
    /\ n_out = "stable"
====
